---- MODULE Spec2Model ----
(***************************************************************************)
(* State-machine model of the chat/payment backend: the message handler    *)
(* (POST /api/chat/message and processQuery), profile creation, and the     *)
(* payment service (createOrder, verifyPayment, handlePaymentFailure) with  *)
(* the routes that call it.                                                 *)
(*                                                                          *)
(* Strings the program inspects character by character (messages, place     *)
(* names, order and payment ids, signatures, the session context) are       *)
(* tuples of one-character strings.  Opaque keys (user ids, session ids)    *)
(* are TLA+ strings.                                                        *)
(*                                                                          *)
(* JavaScript objects are records whose DOMAIN is the set of properties     *)
(* that have been assigned; reading a property that was never assigned      *)
(* yields undefined, which the code only ever uses as a falsy value.        *)
(***************************************************************************)
EXTENDS Integers, Sequences, FiniteSets, Bags, TLC

(***************************************************************************)
(* Program constants.                                                       *)
(***************************************************************************)
FreeLimit == 10
CacheExpiry == 3600000
MaxRetained == 10
ContextLines == 20
HistoryLines == 6
MaxMessageLength == 1000
ComplexWords == 10

(***************************************************************************)
(* Bounds of the model.                                                     *)
(***************************************************************************)
MaxTotal == 12
MaxQueryCount == 1
MaxSessionQueries == 15

\* the chat handlers suspended in a collaborator call at the same time
MaxHandlers == 2

\* the verification handlers suspended at the await of verifyPayment at the
\* same time
MaxVerifications == 1

(***************************************************************************)
(* Strings as tuples of characters.                                         *)
(***************************************************************************)
UpperCase == <<"A","B","C","D","E","F","G","H","I","J","K","L","M",
               "N","O","P","Q","R","S","T","U","V","W","X","Y","Z">>
LowerCase == <<"a","b","c","d","e","f","g","h","i","j","k","l","m",
               "n","o","p","q","r","s","t","u","v","w","x","y","z">>
Digits == <<"0","1","2","3","4","5","6","7","8","9">>
\* the characters String.prototype.trim strips, of those a string here can
\* hold: space, line feed, tab, carriage return, form feed and vertical tab
WhiteSpace == {" ", "\n", "\t", "\r", "\f", ""}

Range(s) == {s[i] : i \in DOMAIN s}

LowerChar(c) ==
    IF c \in Range(UpperCase)
    THEN LowerCase[CHOOSE i \in DOMAIN UpperCase : UpperCase[i] = c]
    ELSE c

\* String.prototype.toLowerCase
ToLowerCase(s) == [i \in DOMAIN s |-> LowerChar(s[i])]

\* String.prototype.trim
Trim(s) ==
    LET keep == {i \in DOMAIN s : s[i] \notin WhiteSpace}
    IN  IF keep = {} THEN <<>>
        ELSE SubSeq(s, CHOOSE i \in keep : \A j \in keep : i <= j,
                       CHOOSE i \in keep : \A j \in keep : i >= j)

\* String.prototype.includes
Includes(s, sub) ==
    \E i \in 0..(Len(s) - Len(sub)) : SubSeq(s, i + 1, i + Len(sub)) = sub

\* \w of a regular expression
IsWordChar(c) ==
    c \in Range(UpperCase) \cup Range(LowerCase) \cup Range(Digits) \cup {"_"}

\* new RegExp(`\\b${keyword}\\b`, 'i').test(s), for a keyword made of word
\* characters: an occurrence with no word character on either side.
WholeWordTest(s, keyword) ==
    LET low == ToLowerCase(s)
    IN  \E i \in 0..(Len(s) - Len(keyword)) :
            /\ SubSeq(low, i + 1, i + Len(keyword)) = keyword
            /\ (i = 0 \/ ~IsWordChar(s[i]))
            /\ (i + Len(keyword) = Len(s) \/ ~IsWordChar(s[i + Len(keyword) + 1]))

\* String.prototype.split(sep) for a one-character separator
Split(s, sep) ==
    LET seps == {i \in DOMAIN s : s[i] = sep}
        n == Cardinality(seps)
        pos(k) == IF k = 0 THEN 0
                  ELSE IF k = n + 1 THEN Len(s) + 1
                  ELSE CHOOSE i \in seps : Cardinality({j \in seps : j <= i}) = k
    IN  [k \in 1..(n + 1) |-> SubSeq(s, pos(k - 1) + 1, pos(k) - 1)]

\* Array.prototype.join(sep)
RECURSIVE Join(_, _)
Join(parts, sep) ==
    IF Len(parts) = 0 THEN <<>>
    ELSE IF Len(parts) = 1 THEN parts[1]
    ELSE parts[1] \o sep \o Join(Tail(parts), sep)

\* Array.prototype.slice(-n)
SliceLast(a, n) == IF Len(a) <= n THEN a ELSE SubSeq(a, Len(a) - n + 1, Len(a))

(***************************************************************************)
(* classifyUserQuery.  A confidence is the fraction num/den.                *)
(***************************************************************************)
KwGeneral == <<"g","e","n","e","r","a","l">>
KwOverview == <<"o","v","e","r","v","i","e","w">>
KwReading == <<"r","e","a","d","i","n","g">>

Apis == <<"planetary-positions", "basic-astro-details">>

Intents == <<
    [name |-> "marriage", keywords |-> <<
        <<"m","a","r","r","y">>,
        <<"m","a","r","r","i","a","g","e">>,
        <<"w","e","d","d","i","n","g">>,
        <<"s","p","o","u","s","e">>,
        <<"p","a","r","t","n","e","r">>,
        <<"h","u","s","b","a","n","d">>,
        <<"w","i","f","e">>,
        <<"r","e","l","a","t","i","o","n","s","h","i","p">>,
        <<"s","h","a","a","d","i">>,
        <<"v","i","v","a","h">>>>],
    [name |-> "career", keywords |-> <<
        <<"c","a","r","e","e","r">>,
        <<"j","o","b">>,
        <<"w","o","r","k">>,
        <<"p","r","o","f","e","s","s","i","o","n">>,
        <<"b","u","s","i","n","e","s","s">>,
        <<"s","u","c","c","e","s","s">>,
        <<"p","r","o","m","o","t","i","o","n">>,
        <<"o","f","f","i","c","e">>,
        <<"n","a","u","k","r","i">>>>],
    [name |-> "money", keywords |-> <<
        <<"m","o","n","e","y">>,
        <<"w","e","a","l","t","h">>,
        <<"f","i","n","a","n","c","e">>,
        <<"i","n","c","o","m","e">>,
        <<"s","a","l","a","r","y">>,
        <<"p","r","o","f","i","t">>,
        <<"r","i","c","h">>,
        <<"f","i","n","a","n","c","i","a","l">>,
        <<"d","h","a","n">>,
        <<"p","a","i","s","a">>>>],
    [name |-> "health", keywords |-> <<
        <<"h","e","a","l","t","h">>,
        <<"d","i","s","e","a","s","e">>,
        <<"i","l","l","n","e","s","s">>,
        <<"f","i","t","n","e","s","s">>,
        <<"m","e","d","i","c","a","l">>,
        <<"b","o","d","y">>,
        <<"p","a","i","n">>,
        <<"h","e","a","l","i","n","g">>,
        <<"s","w","a","s","t","h","y","a">>>>],
    [name |-> "love", keywords |-> <<
        <<"l","o","v","e">>,
        <<"r","o","m","a","n","c","e">>,
        <<"d","a","t","i","n","g">>,
        <<"b","o","y","f","r","i","e","n","d">>,
        <<"g","i","r","l","f","r","i","e","n","d">>,
        <<"c","r","u","s","h">>,
        <<"a","t","t","r","a","c","t","i","o","n">>,
        <<"p","y","a","a","r">>>>],
    [name |-> "family", keywords |-> <<
        <<"f","a","m","i","l","y">>,
        <<"f","a","t","h","e","r">>,
        <<"m","o","t","h","e","r">>,
        <<"b","r","o","t","h","e","r">>,
        <<"s","i","s","t","e","r">>,
        <<"c","h","i","l","d","r","e","n">>,
        <<"k","i","d","s">>,
        <<"p","a","r","e","n","t","s">>,
        <<"p","a","r","i","v","a","r">>>>],
    [name |-> "general", keywords |-> <<
        <<"l","i","f","e">>,
        <<"f","u","t","u","r","e">>,
        <<"d","e","s","t","i","n","y">>,
        <<"g","e","n","e","r","a","l">>,
        <<"o","v","e","r","a","l","l">>,
        <<"h","o","r","o","s","c","o","p","e">>,
        <<"k","u","n","d","l","i">>,
        <<"j","y","o","t","i","s","h">>>>]
>>

\* score of one keyword: 0 when absent, 2 as a whole word, 1 as a substring only
KeywordScore(query, keyword) ==
    IF ~Includes(ToLowerCase(query), keyword) THEN 0
    ELSE IF WholeWordTest(query, keyword) THEN 2 ELSE 1

RECURSIVE SumScores(_, _, _)
SumScores(query, keywords, k) ==
    IF k = 0 THEN 0
    ELSE KeywordScore(query, keywords[k]) + SumScores(query, keywords, k - 1)

\* intents[intent].confidence after the scoring loop
IntentConfidence(query, i) ==
    [num |-> SumScores(query, Intents[i].keywords, Len(Intents[i].keywords)),
     den |-> Len(Intents[i].keywords)]

\* FracGreater also holding for equal fractions
FracGreater_OrEqual(a, b) == a.num * b.den >= b.num * a.den

\* a > b for fractions (line 418)
FracGreater(a, b) == a.num * b.den > b.num * a.den

\* the best-intent loop: best is <<intent name, confidence>> after the first k intents
RECURSIVE BestIntent(_, _)
BestIntent(query, k) ==
    IF k = 0 THEN [intent |-> "general", confidence |-> [num |-> 0, den |-> 1]]
    ELSE LET prev == BestIntent(query, k - 1)
             c == IntentConfidence(query, k)
         IN  IF FracGreater(c, prev.confidence)
             THEN [intent |-> Intents[k].name, confidence |-> c]
             ELSE prev

\* ClassifyUserQuery taking the overview branch only when no other intent's
\* keyword occurs in the text
ClassifyUserQuery_KeywordsFirst(query) ==
    LET queryLower == ToLowerCase(query)
        best == BestIntent(query, Len(Intents))
    IN  IF /\ Includes(queryLower, KwGeneral)
           /\ (Includes(queryLower, KwOverview) \/ Includes(queryLower, KwReading))
           /\ best.intent = "general"
        THEN [intent |-> "general_overview",
              confidence |-> [num |-> 1, den |-> 1],
              apis |-> Apis,
              isGeneralOverview |-> TRUE]
        ELSE [intent |-> best.intent,
              confidence |-> best.confidence,
              apis |-> Apis,
              isComplex |-> Len(Split(query, " ")) > ComplexWords,
              isGeneralOverview |-> FALSE]

\* classifyUserQuery (lines 337-428)
ClassifyUserQuery(query) ==
    LET queryLower == ToLowerCase(query)
    IN  IF Includes(queryLower, KwGeneral)
           /\ (Includes(queryLower, KwOverview) \/ Includes(queryLower, KwReading))
        THEN [intent |-> "general_overview",
              confidence |-> [num |-> 1, den |-> 1],
              apis |-> Apis,
              isGeneralOverview |-> TRUE]
        ELSE LET best == BestIntent(query, Len(Intents))
             IN  [intent |-> best.intent,
                  confidence |-> best.confidence,
                  apis |-> Apis,
                  isComplex |-> Len(Split(query, " ")) > ComplexWords,
                  isGeneralOverview |-> FALSE]

(***************************************************************************)
(* The messages the specifications send, and their classifications computed *)
(* once.                                                                    *)
(***************************************************************************)
TextOverview == <<"g","e","n","e","r","a","l"," ","r","e","a","d","i","n","g">>
TextJob == <<"j","o","b">>
ResponseText == <<"o","k">>
Messages == {TextOverview, TextJob, <<>>}

\* texts for the classifier: several keywords of one intent, the overview pair
\* with other keywords and in other letter cases, ties between intents,
\* keywords inside longer words, no keyword, surrounding blanks
TextManyLove == <<"l","o","v","e"," ","r","o","m","a","n","c","e"," ","d","a","t","i","n","g"," ","c","r","u","s","h"," ","p","y","a","a","r">>
TextOverviewJob == <<"j","o","b"," ","w","o","r","k"," ","g","e","n","e","r","a","l"," ","o","v","e","r","v","i","e","w">>
TextOverviewCase == <<"G","E","N","E","R","A","L"," ","O","v","e","r","v","i","e","w","s">>
TextGeneralJob == <<"g","e","n","e","r","a","l"," ","j","o","b">>
TextTieSameLength == <<"b","o","d","y"," ","j","o","b">>
TextTieTable == <<"m","o","n","e","y"," ","m","a","r","r","y">>
TextSubstring == <<"j","o","b","s">>
TextSubstringWhole == <<"j","o","b","s"," ","w","e","a","l","t","h">>
TextNoKeyword == <<"h","e","l","l","o">>
TextReadingOnly == <<"R","e","a","d","i","n","g"," ","o","v","e","r","v","i","e","w">>
TextPadded == <<" ","J","o","b"," ">>
ClassifyTexts == {TextOverview, TextJob, TextManyLove, TextOverviewJob, TextOverviewCase, TextGeneralJob, TextTieSameLength,
                  TextTieTable, TextSubstring, TextSubstringWhole, TextNoKeyword, TextReadingOnly, TextPadded}

\* the text and the generated answer of the k-th exchange of a session, each
\* a single line that names k
SessionText(k) == TextJob \o <<" ", LowerCase[k]>>
SessionResponse(k) == <<"r", LowerCase[k]>>
SessionTexts == {SessionText(k) : k \in 1..(MaxSessionQueries + 1)}

ClassifyMemo ==
    [m \in {Trim(x) : x \in Messages \cup SessionTexts \cup ClassifyTexts} |-> ClassifyUserQuery(m)]
Classify(query) ==
    IF query \in DOMAIN ClassifyMemo THEN ClassifyMemo[query] ELSE ClassifyUserQuery(query)

(***************************************************************************)
(* The payment gateway's signature scheme:                                  *)
(* crypto.createHmac('sha256', key).update(msg).digest('hex'), which is     *)
(* HMAC (RFC 2104) over SHA-256 (FIPS 180-4) of the UTF-8 bytes, rendered   *)
(* in lower-case hexadecimal.  A 32-bit word is <<high half, low half>>.    *)
(***************************************************************************)
HexDigits == <<"0","1","2","3","4","5","6","7","8","9","a","b","c","d","e","f">>

\* the characters of codes 1 to 95 and of codes 97 to 127, in the order of
\* their codes
Ascii == <<
    "","","","","","","","","\t","\n","","\f","\r","","","",
    "","","","","","","","","","","","","","","",
    " ","!","\"","#","$","%","&","'","(",")","*","+",",","-",".","/",
    "0","1","2","3","4","5","6","7","8","9",":",";","<","=",">","?",
    "@","A","B","C","D","E","F","G","H","I","J","K","L","M","N","O",
    "P","Q","R","S","T","U","V","W","X","Y","Z","[","\\","]","^","_">>
AsciiAbove == <<
    "a","b","c","d","e","f","g","h","i","j","k","l","m","n","o","p",
    "q","r","s","t","u","v","w","x","y","z","{","|","}","~","">>
AsciiCodes ==
    [c \in Range(Ascii) \cup Range(AsciiAbove) |->
        IF c \in Range(Ascii)
        THEN CHOOSE i \in DOMAIN Ascii : Ascii[i] = c
        ELSE 96 + CHOOSE i \in DOMAIN AsciiAbove : AsciiAbove[i] = c]
CharCode(c) == AsciiCodes[c]

\* exclusive or of two bytes, tabulated
XorTable ==
    LET RECURSIVE XorBits(_, _, _)
        XorBits(a, b, n) ==
            IF n = 0 THEN 0 ELSE ((a + b) % 2) + 2 * XorBits(a \div 2, b \div 2, n - 1)
    IN  [a \in 0..255 |-> [b \in 0..255 |-> XorBits(a, b, 8)]]

\* the round constants and the initial hash value
ShaK == <<
    <<17034, 12184>>, <<28983, 17553>>, <<46528, 64463>>, <<59829, 56229>>,
    <<14678, 49755>>, <<23025, 4593>>, <<37439, 33444>>, <<43804, 24277>>,
    <<55303, 43672>>, <<4739, 23297>>, <<9265, 34238>>, <<21772, 32195>>,
    <<29374, 23924>>, <<32990, 45566>>, <<39900, 1703>>, <<49563, 61812>>,
    <<58523, 27073>>, <<61374, 18310>>, <<4033, 40390>>, <<9228, 41420>>,
    <<11753, 11375>>, <<19060, 33962>>, <<23728, 43484>>, <<30457, 35034>>,
    <<38974, 20818>>, <<43057, 50797>>, <<45059, 10184>>, <<48985, 32711>>,
    <<50912, 3059>>, <<54695, 37191>>, <<1738, 25425>>, <<5161, 10599>>,
    <<10167, 2693>>, <<11803, 8504>>, <<19756, 28156>>, <<21304, 3347>>,
    <<25866, 29524>>, <<30314, 2747>>, <<33218, 51502>>, <<37490, 11397>>,
    <<41663, 59553>>, <<43034, 26187>>, <<49739, 35696>>, <<51052, 20899>>,
    <<53650, 59417>>, <<54937, 1572>>, <<62478, 13701>>, <<4202, 41072>>,
    <<6564, 49430>>, <<7735, 27656>>, <<10056, 30540>>, <<13488, 48309>>,
    <<14620, 3251>>, <<20184, 43594>>, <<23452, 51791>>, <<26670, 28659>>,
    <<29839, 33518>>, <<30885, 25455>>, <<33992, 30740>>, <<36039, 520>>,
    <<37054, 65530>>, <<42064, 27883>>, <<48889, 41975>>, <<50801, 30962>>>>
ShaH0 == <<
    <<27145, 58983>>, <<47975, 44677>>, <<15470, 62322>>, <<42319, 62778>>,
    <<20750, 21119>>, <<39685, 26764>>, <<8067, 55723>>, <<23520, 52505>>>>

\* the hash value after one block of 64 bytes
Compress(h, block) ==
    LET Pow2 == <<2, 4, 8, 16, 32, 64, 128, 256, 512, 1024, 2048, 4096, 8192,
                  16384, 32768, 65536>>
        Xor16(a, b) == XorTable[a \div 256][b \div 256] * 256 + XorTable[a % 256][b % 256]
        And16(a, b) == (a + b - Xor16(a, b)) \div 2
        WXor(x, y) == <<Xor16(x[1], y[1]), Xor16(x[2], y[2])>>
        WAnd(x, y) == <<And16(x[1], y[1]), And16(x[2], y[2])>>
        WNot(x) == <<65535 - x[1], 65535 - x[2]>>
        WAdd(x, y) == <<(x[1] + y[1] + ((x[2] + y[2]) \div 65536)) % 65536,
                        (x[2] + y[2]) % 65536>>
        \* rotation and shift to the right by n, 0 < n < 32
        RotR(x, n) ==
            LET y == IF n >= 16 THEN <<x[2], x[1]>> ELSE x
                k == n % 16
            IN  IF k = 0 THEN y
                ELSE <<(y[1] \div Pow2[k]) + (y[2] % Pow2[k]) * Pow2[16 - k],
                       (y[2] \div Pow2[k]) + (y[1] % Pow2[k]) * Pow2[16 - k]>>
        ShR(x, n) ==
            IF n >= 16 THEN <<0, x[1] \div (IF n = 16 THEN 1 ELSE Pow2[n - 16])>>
            ELSE <<x[1] \div Pow2[n],
                   (x[2] \div Pow2[n]) + (x[1] % Pow2[n]) * Pow2[16 - n]>>
        BigSigma0(x) == WXor(WXor(RotR(x, 2), RotR(x, 13)), RotR(x, 22))
        BigSigma1(x) == WXor(WXor(RotR(x, 6), RotR(x, 11)), RotR(x, 25))
        SmallSigma0(x) == WXor(WXor(RotR(x, 7), RotR(x, 18)), ShR(x, 3))
        SmallSigma1(x) == WXor(WXor(RotR(x, 17), RotR(x, 19)), ShR(x, 10))
        Ch(x, y, z) == WXor(WAnd(x, y), WAnd(WNot(x), z))
        Maj(x, y, z) == WXor(WXor(WAnd(x, y), WAnd(x, z)), WAnd(y, z))
        \* the message schedule, grown from the 16 words of the block
        RECURSIVE Schedule(_)
        Schedule(w) ==
            IF Len(w) = 64 THEN w
            ELSE LET t == Len(w) + 1
                 IN  Schedule(Append(w, WAdd(WAdd(SmallSigma1(w[t - 2]), w[t - 7]),
                                             WAdd(SmallSigma0(w[t - 15]), w[t - 16]))))
        \* the working variables after a round, from those before it
        Round(v, wt, kt) ==
            LET t1 == WAdd(WAdd(WAdd(v[8], BigSigma1(v[5])), Ch(v[5], v[6], v[7])),
                           WAdd(kt, wt))
                t2 == WAdd(BigSigma0(v[1]), Maj(v[1], v[2], v[3]))
            IN  <<WAdd(t1, t2), v[1], v[2], v[3], WAdd(v[4], t1), v[5], v[6], v[7]>>
        \* the working variables before round 1 and after each of the 64 rounds
        RECURSIVE Rounds(_, _)
        Rounds(vs, w) ==
            IF Len(vs) = 65 THEN vs
            ELSE Rounds(Append(vs, Round(vs[Len(vs)], w[Len(vs)], ShaK[Len(vs)])), w)
        w0 == [i \in 1..16 |-> <<block[4 * i - 3] * 256 + block[4 * i - 2],
                                 block[4 * i - 1] * 256 + block[4 * i]>>]
        v64 == Rounds(<<h>>, Schedule(w0))[65]
    IN  [i \in 1..8 |-> WAdd(h[i], v64[i])]

\* the 32 bytes of the SHA-256 digest of prefix \o bytes, where h is the hash
\* value after the blocks of prefix and done is the length of prefix
Sha256From(h, done, bytes) ==
    LET n == done + Len(bytes)
        \* the message followed by 0x80, zeros and its length in bits
        padded == bytes \o <<128>> \o [i \in 1..((119 - (n % 64)) % 64) |-> 0]
                  \o <<0, 0, 0, 0, 0, (8 * n) \div 65536, ((8 * n) \div 256) % 256,
                       (8 * n) % 256>>
        RECURSIVE Blocks(_, _)
        Blocks(hv, rest) ==
            IF Len(rest) = 0 THEN hv
            ELSE Blocks(Compress(hv, SubSeq(rest, 1, 64)), SubSeq(rest, 65, Len(rest)))
        \* the bytes of the eight words of the hash value
        hn == Blocks(h, padded)
    IN  [i \in 1..32 |->
            LET half == hn[(i + 3) \div 4][(((i - 1) \div 2) % 2) + 1]
            IN  IF i % 2 = 1 THEN half \div 256 ELSE half % 256]

\* digest('hex')
RECURSIVE HexOf(_)
HexOf(bytes) ==
    IF Len(bytes) = 0 THEN <<>>
    ELSE <<HexDigits[(Head(bytes) \div 16) + 1], HexDigits[(Head(bytes) % 16) + 1]>>
         \o HexOf(Tail(bytes))

\* process.env.RAZORPAY_KEY_SECRET and RAZORPAY_WEBHOOK_SECRET
KeySecret == <<"k","1">>
WebhookSecret == <<"w","1">>

\* the hash values after the block of a key combined with 0x36 and with 0x5c,
\* the key being padded with zeros to 64 bytes (RFC 2104)
KeyState(key) ==
    LET KeyPad(pad) ==
            [i \in 1..64 |-> XorTable[IF i <= Len(key) THEN CharCode(key[i]) ELSE 0][pad]]
    IN  [inner |-> Compress(ShaH0, KeyPad(54)), outer |-> Compress(ShaH0, KeyPad(92))]

\* createHmac('sha256', key).update(msg).digest('hex'), given the key's two
\* hash values, and for a key of at most 64 bytes
HmacFrom(ks, msg) ==
    HexOf(Sha256From(ks.outer, 64,
                     Sha256From(ks.inner, 64, [i \in DOMAIN msg |-> CharCode(msg[i])])))
HmacOf(key, msg) == HmacFrom(KeyState(key), msg)

\* the digests of the messages the specifications sign, computed once
SignedIds == {<<"o","1">>, <<"o","2">>, <<"p","1">>, <<"p","2">>, <<>>}
SignedMessages ==
    {IF sep THEN a \o <<"|">> \o b ELSE a \o b : a, b \in SignedIds, sep \in BOOLEAN} \cup {<<"e">>}
HmacKeys == {<<KeySecret, m>> : m \in SignedMessages} \cup {<<WebhookSecret, <<"e">> >>}
HmacMemo ==
    LET ks == [key \in {KeySecret, WebhookSecret} |-> KeyState(key)] @@ <<>>
    IN  [in \in HmacKeys |-> HmacFrom(ks[in[1]], in[2])] @@ <<>>
Hmac(key, msg) ==
    IF <<key, msg>> \in HmacKeys THEN HmacMemo[<<key, msg>>] ELSE HmacOf(key, msg)

\* SignedMessage without the separator
SignedMessage_NoSeparator(orderId, paymentId) == orderId \o paymentId

\* `${razorpay_order_id}|${razorpay_payment_id}`
SignedMessage(orderId, paymentId) == orderId \o <<"|">> \o paymentId

\* this.plans
Plans == [basic    |-> [questions |-> 5,  price |-> 199, name |-> "Basic Plan"],
          standard |-> [questions |-> 10, price |-> 299, name |-> "Standard Plan"],
          premium  |-> [questions |-> 20, price |-> 399, name |-> "Premium Plan"],
          report   |-> [questions |-> 0,  price |-> 999, name |-> "Full Report"]]
ValidPlans == {"basic", "standard", "premium", "report"}
\* the message of the 400 answer for a plan type outside validPlans (line 1011)
InvalidPlan == "Invalid plan type. Must be one of: basic, standard, premium, report"
\* the plan types for which this.plans[planType] is truthy (part_000 line
\* 34): the four entries and the property names an object literal inherits
PlanKeys == DOMAIN Plans \cup {"constructor", "__proto__", "toString", "valueOf",
                               "hasOwnProperty", "isPrototypeOf",
                               "propertyIsEnumerable", "toLocaleString",
                               "__defineGetter__", "__defineSetter__",
                               "__lookupGetter__", "__lookupSetter__"}

(***************************************************************************)
(* Object and Map helpers.                                                  *)
(***************************************************************************)
\* obj[field] = val, and Map.prototype.set
Put(f, k, v) == [x \in DOMAIN f \cup {k} |-> IF x = k THEN v ELSE f[x]]
\* what lastOp records of a handler step
Responded(op, status) == [op |-> op, status |-> status, error |-> ""]
\* the record of a handler that caught an error and logged its message
Failed(op, status, message) == [op |-> op, status |-> status, error |-> message]
\* a property read used as a truth value: undefined is falsy
Truthy(obj, field) == field \in DOMAIN obj /\ obj[field]

(***************************************************************************)
(* State.                                                                   *)
(*   users, sessions, astroCache, userStates : the Maps of server.js        *)
(*   sessionHeap : the session objects; sessions maps a session id to the   *)
(*                 object stored under it, and a handler holds the object   *)
(*                 it read or created, stored or not                        *)
(*   orders, payments : the Maps of PaymentService                          *)
(*   requests : the chat handlers suspended in a collaborator call, as the  *)
(*              bag of their local variables                                *)
(*   verifying : the verification handlers suspended at the await of        *)
(*               verifyPayment (line 1059), as the bag of their local       *)
(*               variables once the call has run                            *)
(*   now : Date.now(), in milliseconds since the process started            *)
(*   lastOp : the handler step taken last and the HTTP status it responded  *)
(*            with (0 when the step sent no response)                       *)
(* A user's state object, once in userStates, is never replaced by another  *)
(* object (only profile creation stores a new object, under a new id), so   *)
(* userStates[u] is that object and in-place updates are updates of it.     *)
(* Properties that are written and never read by a handler (startTime,      *)
(* lastActivity, message timestamps, purchaseDate, createdAt, verifiedAt,   *)
(* failedAt, the gateway's order fields) are left out.                      *)
(***************************************************************************)
VARIABLES users, sessions, sessionHeap, astroCache, userStates,
          orders, payments, requests, verifying, now, lastOp

vars == <<users, sessions, sessionHeap, astroCache, userStates,
          orders, payments, requests, verifying, now, lastOp>>

Init ==
    /\ users = <<>>
    /\ sessions = <<>>
    /\ sessionHeap = <<>>
    /\ astroCache = <<>>
    /\ userStates = <<>>
    /\ orders = <<>>
    /\ payments = <<>>
    /\ requests = EmptyBag
    /\ verifying = EmptyBag
    /\ now = 0
    /\ lastOp = Responded("start", 0)

(***************************************************************************)
(* POST /api/chat/message and processQuery.                                 *)
(***************************************************************************)
\* the defaults of lines 1377-1382, and of lines 438-442 and 1063-1067
DefaultChatState == [freeQuestionsUsed |-> 0, isPremium |-> FALSE,
                     totalQuestions |-> 0, hasReceivedOverview |-> FALSE]
DefaultState == [freeQuestionsUsed |-> 0, isPremium |-> FALSE, totalQuestions |-> 0]
\* NewSession with the first query already counted
NewSession_Counted == [messages |-> <<>>, context |-> <<>>, queryCount |-> 1]

\* the session object of lines 445-450
NewSession == [messages |-> <<>>, context |-> <<>>, queryCount |-> 0]

UserPrefix == <<"U","s","e","r",":"," ">>
BotPrefix == <<"B","o","t",":"," ">>
NewLine == <<"\n">>

\* GateDecision with the limit test off by one
GateDecision_OffByOne(userState, classification) ==
    IF classification.isGeneralOverview /\ ~Truthy(userState, "hasReceivedOverview")
    THEN "overview"
    ELSE IF ~userState.isPremium /\ userState.freeQuestionsUsed > FreeLimit
    THEN "reject"
    ELSE IF ~userState.isPremium THEN "charge" ELSE "pass"

\* GateDecision testing the limit before the overview
GateDecision_QuotaFirst(userState, classification) ==
    IF ~userState.isPremium /\ userState.freeQuestionsUsed >= FreeLimit
    THEN "reject"
    ELSE IF classification.isGeneralOverview /\ ~Truthy(userState, "hasReceivedOverview")
    THEN "overview"
    ELSE IF ~userState.isPremium THEN "charge" ELSE "pass"

\* GateDecision taking the free overview branch for every overview message
GateDecision_OverviewRepeats(userState, classification) ==
    IF classification.isGeneralOverview
    THEN "overview"
    ELSE IF ~userState.isPremium /\ userState.freeQuestionsUsed >= FreeLimit
    THEN "reject"
    ELSE IF ~userState.isPremium THEN "charge" ELSE "pass"

\* GateDecision rejecting a premium user whose allowance is used up
GateDecision_AllowanceEnforced(userState, classification) ==
    IF classification.isGeneralOverview /\ ~Truthy(userState, "hasReceivedOverview")
    THEN "overview"
    ELSE IF ~userState.isPremium /\ userState.freeQuestionsUsed >= FreeLimit
    THEN "reject"
    ELSE IF ~userState.isPremium THEN "charge"
    ELSE IF userState.totalQuestions >= userState.remainingQuestions THEN "reject"
    ELSE "pass"

\* the branch of the monetization gate a message takes (lines 1386-1408)
GateDecision(userState, classification) ==
    IF classification.isGeneralOverview /\ ~Truthy(userState, "hasReceivedOverview")
    THEN "overview"
    ELSE IF ~userState.isPremium /\ userState.freeQuestionsUsed >= FreeLimit
    THEN "reject"
    ELSE IF ~userState.isPremium THEN "charge" ELSE "pass"

\* GateState with the overview flag left as it was
GateState_FlagNotSet(userState, decision) ==
    IF decision = "charge"
    THEN [userState EXCEPT !.freeQuestionsUsed = @ + 1]
    ELSE userState

\* GateState with a charged question also making the user premium
GateState_PremiumOnCharge(userState, decision) ==
    IF decision = "overview" THEN Put(userState, "hasReceivedOverview", TRUE)
    ELSE IF decision = "charge"
    THEN [userState EXCEPT !.freeQuestionsUsed = @ + 1, !.isPremium = TRUE]
    ELSE userState

\* the user state object after that branch (lines 1389, 1405)
GateState(userState, decision) ==
    IF decision = "overview" THEN Put(userState, "hasReceivedOverview", TRUE)
    ELSE IF decision = "charge"
    THEN [userState EXCEPT !.freeQuestionsUsed = @ + 1]
    ELSE userState

\* AfterGate with the question counted before the limit is tested
AfterGate_ChargeFirst(states, userId, userState, decision) ==
    IF decision \in {"overview", "charge"}
    THEN Put(states, userId, GateState(userState, decision))
    ELSE IF decision = "reject"
    THEN Put(states, userId, [userState EXCEPT !.freeQuestionsUsed = @ + 1])
    ELSE states

\* AfterGate with the overview flag stored only when the exchange completes,
\* not at the gate
AfterGate_FlagDeferred(states, userId, userState, decision) ==
    IF decision = "charge"
    THEN Put(states, userId, GateState(userState, decision))
    ELSE states

\* userStates after the gate: the branches that change the object store it
\* (lines 1390, 1406); the rejection and the premium branch store nothing
AfterGate(states, userId, userState, decision) ==
    IF decision \in {"overview", "charge"}
    THEN Put(states, userId, GateState(userState, decision))
    ELSE states

\* `${userId}_${classification.apis.join('_')}`
RECURSIVE JoinNames(_, _)
JoinNames(names, sep) ==
    IF Len(names) = 0 THEN ""
    ELSE IF Len(names) = 1 THEN names[1]
    ELSE names[1] \o sep \o JoinNames(Tail(names), sep)
CacheKey(userId, apis) == userId \o "_" \o JoinNames(apis, "_")

\* NeedsFreshData asking for fresh data on every message
NeedsFreshData_Always(cache, cacheKey, t) == TRUE

\* NeedsFreshData taking an entry as expired when its age reaches the window
NeedsFreshData_AtExpiry(cache, cacheKey, t) ==
    cacheKey \notin DOMAIN cache \/ (t - cache[cacheKey].timestamp) >= CacheExpiry

\* line 463
NeedsFreshData(cache, cacheKey, t) ==
    cacheKey \notin DOMAIN cache \/ (t - cache[cacheKey].timestamp) > CacheExpiry

\* the prompt context of lines 491-521: the values rendered into the template
BuildContext(user, session, userState, astroData, classification) ==
    [fullName |-> user.fullName,
     gender |-> user.gender,
     birthPlace |-> user.birthData.birthPlace,
     queryCount |-> session.queryCount,
     isPremium |-> userState.isPremium,
     totalQuestions |-> userState.totalQuestions,
     dataKeys |-> DOMAIN astroData.data,
     data |-> astroData.data,
     history |-> Join(SliceLast(Split(session.context, "\n"), HistoryLines), NewLine),
     intent |-> classification.intent,
     confidence |-> classification.confidence,
     apis |-> classification.apis,
     isGeneralOverview |-> classification.isGeneralOverview]

\* session objects still referenced by the store or by a suspended handler
Collect(heap, sess, reqs) ==
    LET live == {sess[k] : k \in DOMAIN sess} \cup {req.session : req \in BagToSet(reqs)}
    IN  [o \in DOMAIN heap \cap live |-> heap[o]]

Suspend(reqs, req) == reqs (+) SetToBag({req})
Resume(reqs, req) == reqs (-) SetToBag({req})
NewObjId == CHOOSE o \in 1..(Cardinality(DOMAIN sessionHeap) + 1) : o \notin DOMAIN sessionHeap

\* processQuery from its entry to its first suspension (lines 431-524), called
\* with the user states as the gate left them.  The field before records the
\* session the store held when the message arrived (none for a new session);
\* no handler reads it.
ProcessQueryStart(userId, sessionId, text, classification, afterGate) ==
    LET user == users[userId]
        userState == [afterGate[userId] EXCEPT !.totalQuestions = @ + 1]
        existing == sessionId \in DOMAIN sessions
        obj == IF existing THEN sessions[sessionId] ELSE NewObjId
        session == IF existing
                   THEN [sessionHeap[obj] EXCEPT !.queryCount = @ + 1]
                   ELSE [NewSession EXCEPT !.queryCount = @ + 1]
        cacheKey == CacheKey(userId, classification.apis)
        needsFreshData == NeedsFreshData(astroCache, cacheKey, now)
    IN  /\ userStates' = [afterGate EXCEPT ![userId] = userState]
        /\ sessionHeap' = Put(sessionHeap, obj, session)
        /\ requests' = Suspend(requests,
              [pc |-> IF needsFreshData THEN "fetch" ELSE "generate",
               userId |-> userId,
               sessionId |-> sessionId,
               message |-> text,
               session |-> obj,
               before |-> IF existing THEN <<sessionHeap[obj]>> ELSE <<>>,
               astroData |-> IF cacheKey \in DOMAIN astroCache
                             THEN <<astroCache[cacheKey]>> ELSE <<>>,
               context |-> IF needsFreshData THEN <<>>
                           ELSE <<BuildContext(user, session, userState,
                                               astroCache[cacheKey], classification)>>])
        /\ lastOp' = Responded("chat", 0)
        /\ UNCHANGED <<users, sessions, astroCache, orders, payments, now, verifying>>

\* the handler from the request to its first suspension or its early response
ChatMessage(userId, sessionId, message) ==
    LET userState == IF userId \in DOMAIN userStates
                     THEN userStates[userId] ELSE DefaultChatState
        text == Trim(message)
        classification == Classify(text)
        decision == GateDecision(userState, classification)
        afterGate == AfterGate(userStates, userId, userState, decision)
    IN  IF \/ userId = "" \/ sessionId = "" \/ Len(message) = 0
           \/ Len(text) = 0
           \/ Len(message) > MaxMessageLength
        THEN /\ lastOp' = Responded("chat", 400)
             /\ UNCHANGED <<users, sessions, sessionHeap, astroCache, userStates,
                            orders, payments, requests, now, verifying>>
        ELSE IF decision = "reject"
        THEN /\ userStates' = afterGate
             /\ lastOp' = Responded("chat", 402)
             /\ UNCHANGED <<users, sessions, sessionHeap, astroCache,
                            orders, payments, requests, now, verifying>>
        ELSE IF userId \notin DOMAIN users
        THEN /\ userStates' = afterGate
             /\ lastOp' = Responded("chat", 500)
             /\ UNCHANGED <<users, sessions, sessionHeap, astroCache,
                            orders, payments, requests, now, verifying>>
        ELSE ProcessQueryStart(userId, sessionId, text, classification, afterGate)

\* fetchAstrologyData returns (lines 468-474, then 490-524).  It catches the
\* failure of each endpoint and reports it in that endpoint's result, so it
\* returns in every case; results maps each endpoint to its result.
FetchReturn(req, results) ==
    LET classification == Classify(req.message)
        cacheKey == CacheKey(req.userId, classification.apis)
        astroData == [data |-> results, timestamp |-> now, cacheKey |-> cacheKey]
    IN  /\ BagIn(req, requests)
        /\ req.pc = "fetch"
        /\ astroCache' = Put(astroCache, cacheKey, astroData)
        /\ requests' = Suspend(Resume(requests, req),
              [req EXCEPT !.pc = "generate",
                          !.astroData = <<astroData>>,
                          !.context = <<BuildContext(users[req.userId],
                                          sessionHeap[req.session],
                                          userStates[req.userId],
                                          astroData, classification)>>])
        /\ lastOp' = Responded("fetched", 0)
        /\ UNCHANGED <<users, sessions, sessionHeap, userStates, orders, payments, now, verifying>>

\* RecordExchange keeping the oldest exchanges instead of the most recent
RecordExchange_KeepOldest(session, message, response, classification) ==
    LET entry == [user |-> message, bot |-> response,
                  classification |-> classification.intent,
                  confidence |-> classification.confidence,
                  isGeneralOverview |-> classification.isGeneralOverview]
        pushed == Append(session.messages, entry)
        context == session.context \o UserPrefix \o message \o NewLine
                                   \o BotPrefix \o response \o NewLine
    IN  IF Len(pushed) > MaxRetained
        THEN [session EXCEPT
                !.messages = SubSeq(pushed, 1, MaxRetained),
                !.context = Join(SliceLast(Split(context, "\n"), ContextLines), NewLine)]
        ELSE [session EXCEPT !.messages = pushed, !.context = context]

\* the session object after lines 527-545
RecordExchange(session, message, response, classification) ==
    LET entry == [user |-> message, bot |-> response,
                  classification |-> classification.intent,
                  confidence |-> classification.confidence,
                  isGeneralOverview |-> classification.isGeneralOverview]
        pushed == Append(session.messages, entry)
        context == session.context \o UserPrefix \o message \o NewLine
                                   \o BotPrefix \o response \o NewLine
    IN  IF Len(pushed) > MaxRetained
        THEN [session EXCEPT
                !.messages = SliceLast(pushed, MaxRetained),
                !.context = Join(SliceLast(Split(context, "\n"), ContextLines), NewLine)]
        ELSE [session EXCEPT !.messages = pushed, !.context = context]

\* getClaudeResponse returns the generated text (lines 524-557, 1419-1429)
GenerateOk(req, response) ==
    LET session == RecordExchange(sessionHeap[req.session], req.message, response,
                                  Classify(req.message))
        reqs == Resume(requests, req)
        sess == Put(sessions, req.sessionId, req.session)
    IN  /\ BagIn(req, requests)
        /\ req.pc = "generate"
        /\ sessions' = sess
        /\ sessionHeap' = Collect(Put(sessionHeap, req.session, session), sess, reqs)
        /\ userStates' = Put(userStates, req.userId, userStates[req.userId])
        /\ requests' = reqs
        /\ lastOp' = Responded("generated", 200)
        /\ UNCHANGED <<users, astroCache, orders, payments, now, verifying>>

\* GenerateFail with the charged question given back
GenerateFail_Refund(req) ==
    LET reqs == Resume(requests, req)
    IN  /\ BagIn(req, requests)
        /\ req.pc = "generate"
        /\ sessionHeap' = Collect(sessionHeap, sessions, reqs)
        /\ userStates' = [userStates EXCEPT ![req.userId].freeQuestionsUsed =
                              IF @ > 0 THEN @ - 1 ELSE @]
        /\ requests' = reqs
        /\ lastOp' = Responded("generated", 500)
        /\ UNCHANGED <<users, sessions, astroCache, orders, payments, now, verifying>>

\* GenerateFail giving the free overview back
GenerateFail_OverviewRestored(req) ==
    LET reqs == Resume(requests, req)
    IN  /\ BagIn(req, requests)
        /\ req.pc = "generate"
        /\ sessionHeap' = Collect(sessionHeap, sessions, reqs)
        /\ userStates' = IF Classify(req.message).isGeneralOverview
                          THEN [userStates EXCEPT ![req.userId] =
                                   Put(@, "hasReceivedOverview", FALSE)]
                          ELSE userStates
        /\ requests' = reqs
        /\ lastOp' = Responded("generated", 500)
        /\ UNCHANGED <<users, sessions, astroCache, orders, payments, now, verifying>>

\* GenerateFail with the thrown error caught by nobody: the handler never
\* answers and stays in flight
GenerateFail_Unhandled(req) ==
    /\ BagIn(req, requests)
    /\ req.pc = "generate"
    /\ requests' = Suspend(Resume(requests, req), [req EXCEPT !.pc = "unhandled"])
    /\ lastOp' = Responded("generated", 0)
    /\ UNCHANGED <<users, sessions, sessionHeap, astroCache, userStates,
                   orders, payments, now, verifying>>

\* getClaudeResponse throws (lines 330-333, 1431-1449)
GenerateFail(req) ==
    LET reqs == Resume(requests, req)
    IN  /\ BagIn(req, requests)
        /\ req.pc = "generate"
        /\ sessionHeap' = Collect(sessionHeap, sessions, reqs)
        /\ requests' = reqs
        /\ lastOp' = Responded("generated", 500)
        /\ UNCHANGED <<users, sessions, astroCache, userStates, orders, payments, now, verifying>>

(***************************************************************************)
(* getCoordinates and POST /api/user/create.  Coordinates are in units of   *)
(* 0.0001 degree.                                                           *)
(***************************************************************************)
IndianCityCoordinates == <<
    [name |-> <<"m","u","m","b","a","i">>,
     latitude |-> 190760, longitude |-> 728777, timezone |-> "Asia/Kolkata"],
    [name |-> <<"d","e","l","h","i">>,
     latitude |-> 287041, longitude |-> 771025, timezone |-> "Asia/Kolkata"],
    [name |-> <<"b","a","n","g","a","l","o","r","e">>,
     latitude |-> 129716, longitude |-> 775946, timezone |-> "Asia/Kolkata"],
    [name |-> <<"k","o","l","k","a","t","a">>,
     latitude |-> 225726, longitude |-> 883639, timezone |-> "Asia/Kolkata"],
    [name |-> <<"c","h","e","n","n","a","i">>,
     latitude |-> 130827, longitude |-> 802707, timezone |-> "Asia/Kolkata"],
    [name |-> <<"h","y","d","e","r","a","b","a","d">>,
     latitude |-> 173850, longitude |-> 784867, timezone |-> "Asia/Kolkata"],
    [name |-> <<"p","u","n","e">>,
     latitude |-> 185204, longitude |-> 738567, timezone |-> "Asia/Kolkata"]
>>

\* the lower-case names every object literal inherits from Object.prototype:
\* indianCityCoordinates[cityKey] (line 109) is a function or an object for
\* them, which has no latitude, longitude or timezone
InheritedKeys == {<<"c","o","n","s","t","r","u","c","t","o","r">>,
                  <<"_","_","p","r","o","t","o","_","_">>}

\* getCoordinates(location), given what the geocoding service answered:
\* geo.ok with the first result's coordinates, or a failure of any kind
GetCoordinates(location, geo) ==
    LET cityKey == Trim(ToLowerCase(location))
        hits == {i \in DOMAIN IndianCityCoordinates :
                    IndianCityCoordinates[i].name = cityKey}
    IN  IF geo.ok
        THEN [ok |-> TRUE, latitude |-> geo.latitude, longitude |-> geo.longitude,
              timezone |-> geo.timezone]
        ELSE IF hits # {}
        THEN LET c == IndianCityCoordinates[CHOOSE i \in hits : TRUE]
             IN  [ok |-> TRUE, latitude |-> c.latitude, longitude |-> c.longitude,
                  timezone |-> c.timezone]
        ELSE IF cityKey \in InheritedKeys
        THEN [ok |-> TRUE, latitude |-> "undefined", longitude |-> "undefined",
              timezone |-> "undefined"]
        ELSE [ok |-> FALSE, latitude |-> 0, longitude |-> 0, timezone |-> ""]

ValidGenders == {<<"m","a","l","e">>, <<"f","e","m","a","l","e">>, <<"o","t","h","e","r">>}

\* /^\d{4}-\d{2}-\d{2}$/ and /^\d{2}:\d{2}$/
DateRegex(s) ==
    /\ Len(s) = 10
    /\ \A i \in 1..10 : IF i \in {5, 8} THEN s[i] = "-" ELSE s[i] \in Range(Digits)
TimeRegex(s) ==
    /\ Len(s) = 5
    /\ \A i \in 1..5 : IF i = 3 THEN s[i] = ":" ELSE s[i] \in Range(Digits)

\* Number(s) for a string of decimal digits
RECURSIVE ToNumber(_)
ToNumber(s) ==
    IF Len(s) = 0 THEN 0
    ELSE 10 * ToNumber(SubSeq(s, 1, Len(s) - 1))
         + (CHOOSE d \in 0..9 : Digits[d + 1] = s[Len(s)])

\* the handler at the return of the geocoding call.  newId is what
\* generateId() returns at line 1287, after the validation and the geocoding:
\* an id that no store holds.
CreateUser(fullName, gender, birthDate, birthTime, birthPlace, geo, newId) ==
    LET coordinates == GetCoordinates(birthPlace, geo)
    IN  /\ IF \/ Len(fullName) = 0 \/ Len(gender) = 0 \/ Len(birthDate) = 0
              \/ Len(birthTime) = 0 \/ Len(birthPlace) = 0
              \/ ToLowerCase(gender) \notin ValidGenders
              \/ ~DateRegex(birthDate)
              \/ ~TimeRegex(birthTime)
           THEN /\ lastOp' = Responded("createUser", 400)
                /\ UNCHANGED <<users, userStates>>
           ELSE IF ~coordinates.ok
           THEN /\ lastOp' = Responded("createUser", 500)
                /\ UNCHANGED <<users, userStates>>
           ELSE /\ newId \notin DOMAIN users \cup DOMAIN userStates
                /\ users' = Put(users, newId,
                        [id |-> newId, fullName |-> Trim(fullName),
                         gender |-> ToLowerCase(gender),
                         birthData |-> [birthDate |-> birthDate,
                                        birthTime |-> birthTime,
                                        birthPlace |-> Trim(birthPlace),
                                        year |-> ToNumber(SubSeq(birthDate, 1, 4)),
                                        month |-> ToNumber(SubSeq(birthDate, 6, 7)),
                                        day |-> ToNumber(SubSeq(birthDate, 9, 10)),
                                        hour |-> ToNumber(SubSeq(birthTime, 1, 2)),
                                        minute |-> ToNumber(SubSeq(birthTime, 4, 5)),
                                        latitude |-> coordinates.latitude,
                                        longitude |-> coordinates.longitude,
                                        timezone |-> coordinates.timezone,
                                        \* 5.5 hours, in tenths of an hour
                                        timezoneOffset |->
                                            IF coordinates.timezone = "Asia/Kolkata"
                                            THEN 55 ELSE 0]])
                /\ userStates' = Put(userStates, newId, DefaultChatState)
                /\ lastOp' = Responded("createUser", 200)
        /\ UNCHANGED <<sessions, sessionHeap, astroCache, orders, payments, requests, now, verifying>>

(***************************************************************************)
(* PaymentService and the payment routes.                                   *)
(***************************************************************************)
\* CreateOrder storing the order although the gateway call failed
CreateOrder_StoreOnFailure(userId, planType, gatewayOk, orderId) ==
    /\ IF userId = "" \/ planType = ""
       THEN /\ lastOp' = Failed("createOrder", 400,
                                 "Missing required fields: userId and planType are required")
            /\ UNCHANGED orders
       ELSE IF planType \notin ValidPlans
       THEN /\ lastOp' = Failed("createOrder", 400, InvalidPlan)
            /\ UNCHANGED orders
       ELSE IF planType \notin PlanKeys
       THEN /\ lastOp' = Responded("createOrder", 500)
            /\ UNCHANGED orders
       ELSE /\ orderId \notin DOMAIN orders
            /\ orders' = Put(orders, orderId,
                    [id |-> orderId, amount |-> Plans[planType].price * 100,
                     userId |-> userId, planType |-> planType,
                     plan |-> Plans[planType], status |-> "created"])
            /\ lastOp' = Responded("createOrder", IF gatewayOk THEN 200 ELSE 500)
    /\ UNCHANGED <<users, sessions, sessionHeap, astroCache, userStates,
                   payments, requests, now, verifying>>

\* POST /api/payment/create-order with PaymentService.createOrder, at the
\* return of the gateway call.  The route answers 400 for a missing field
\* or a plan type outside validPlans (lines 1000-1013); the service throws
\* for a plan type with no entry in this.plans (line 35) and rethrows the
\* error of the gateway (line 37), both answered 500 (line 1031); the order
\* is stored under the id the gateway issued (line 58), and the gateway
\* issues each id once.
CreateOrder(userId, planType, gatewayOk, orderId) ==
    /\ IF userId = "" \/ planType = ""
       THEN /\ lastOp' = Failed("createOrder", 400,
                                 "Missing required fields: userId and planType are required")
            /\ UNCHANGED orders
       ELSE IF planType \notin ValidPlans
       THEN /\ lastOp' = Failed("createOrder", 400, InvalidPlan)
            /\ UNCHANGED orders
       ELSE IF planType \notin PlanKeys \/ ~gatewayOk
       THEN /\ lastOp' = Responded("createOrder", 500)
            /\ UNCHANGED orders
       ELSE /\ orderId \notin DOMAIN orders
            /\ orders' = Put(orders, orderId,
                    [id |-> orderId, amount |-> Plans[planType].price * 100,
                     userId |-> userId, planType |-> planType,
                     plan |-> Plans[planType], status |-> "created"])
            /\ lastOp' = Responded("createOrder", 200)
    /\ UNCHANGED <<users, sessions, sessionHeap, astroCache, userStates,
                   payments, requests, now, verifying>>

\* VerifyResult comparing only the first character of the signatures
VerifyResult_PrefixCompare(ords, paymentData) ==
    IF Len(paymentData.razorpay_order_id) = 0
       \/ Len(paymentData.razorpay_payment_id) = 0
       \/ Len(paymentData.razorpay_signature) = 0
    THEN "Payment verification failed: Missing payment verification data"
    ELSE IF paymentData.razorpay_order_id \notin DOMAIN ords
    THEN "Payment verification failed: Order not found"
    ELSE IF Hmac(KeySecret, SignedMessage(paymentData.razorpay_order_id,
                                          paymentData.razorpay_payment_id))[1]
            # paymentData.razorpay_signature[1]
    THEN "Payment verification failed: Invalid payment signature"
    ELSE "ok"

\* VerifyResult refusing an order that was reported failed
VerifyResult_FailedIsFinal(ords, paymentData) ==
    IF Len(paymentData.razorpay_order_id) = 0
       \/ Len(paymentData.razorpay_payment_id) = 0
       \/ Len(paymentData.razorpay_signature) = 0
    THEN "Payment verification failed: Missing payment verification data"
    ELSE IF paymentData.razorpay_order_id \notin DOMAIN ords
            \/ ords[paymentData.razorpay_order_id].status = "failed"
    THEN "Payment verification failed: Order not found"
    ELSE IF Hmac(KeySecret, SignedMessage(paymentData.razorpay_order_id,
                                          paymentData.razorpay_payment_id))
            # paymentData.razorpay_signature
    THEN "Payment verification failed: Invalid payment signature"
    ELSE "ok"

\* VerifyResult without the signature comparison
VerifyResult_NoSignature(ords, paymentData) ==
    IF Len(paymentData.razorpay_order_id) = 0
       \/ Len(paymentData.razorpay_payment_id) = 0
       \/ Len(paymentData.razorpay_signature) = 0
    THEN "Payment verification failed: Missing payment verification data"
    ELSE IF paymentData.razorpay_order_id \notin DOMAIN ords
    THEN "Payment verification failed: Order not found"
    ELSE "ok"

\* the outcome of PaymentService.verifyPayment on paymentData: "ok", or the
\* message of the error it throws (lines 98-114, rethrown at line 150)
VerifyResult(ords, paymentData) ==
    IF Len(paymentData.razorpay_order_id) = 0
       \/ Len(paymentData.razorpay_payment_id) = 0
       \/ Len(paymentData.razorpay_signature) = 0
    THEN "Payment verification failed: Missing payment verification data"
    ELSE IF paymentData.razorpay_order_id \notin DOMAIN ords
    THEN "Payment verification failed: Order not found"
    ELSE IF Hmac(KeySecret, SignedMessage(paymentData.razorpay_order_id,
                                          paymentData.razorpay_payment_id))
            # paymentData.razorpay_signature
    THEN "Payment verification failed: Invalid payment signature"
    ELSE "ok"

\* paymentRecord (lines 116-128)
PaymentRecord(order, paymentData) ==
    [id |-> paymentData.razorpay_payment_id,
     orderId |-> paymentData.razorpay_order_id,
     amount |-> order.amount,
     status |-> "captured",
     userId |-> order.userId,
     planType |-> order.planType,
     plan |-> order.plan,
     createdAt |-> now,
     verifiedAt |-> now]

\* the order after lines 133-134
PaidOrder(order, paymentData) ==
    Put(Put(order, "status", "paid"), "paymentId", paymentData.razorpay_payment_id)

\* ApplyPayment flipping isPremium instead of setting it
ApplyPayment_Toggle(userState, order, payment) ==
    Put(Put(Put(Put(Put(Put(userState,
        "isPremium", ~userState.isPremium),
        "planType", order.planType),
        "totalQuestions", order.plan.questions),
        "remainingQuestions", order.plan.questions),
        "purchaseDate", now),
        "paymentId", payment.id)

\* the user state after lines 1063-1074
ApplyPayment(userState, order, payment) ==
    Put(Put(Put(Put(Put(Put(userState,
        "isPremium", TRUE),
        "planType", order.planType),
        "totalQuestions", order.plan.questions),
        "remainingQuestions", order.plan.questions),
        "purchaseDate", now),
        "paymentId", payment.id)

\* what a suspended verification handler still reads when it resumes: the
\* outcome of verifyPayment and, when the payment was accepted, the user id of
\* the request and the ids of the order and payment objects returned
Verification(result, paymentData, userId) ==
    IF result = "ok"
    THEN [result |-> result, userId |-> userId,
          orderId |-> paymentData.razorpay_order_id,
          paymentId |-> paymentData.razorpay_payment_id]
    ELSE [result |-> result, userId |-> "", orderId |-> <<>>, paymentId |-> <<>>]

\* POST /api/payment/verify from the request to the await of line 1059.  A
\* request without paymentData carries <<>> and one without userId carries ""
\* (line 1046): it is answered 400 at once.  Otherwise
\* PaymentService.verifyPayment runs to its end, as it has no suspension
\* point: it records the payment and marks the order (lines 130-135) or
\* throws, and the handler is suspended with the outcome until the promise
\* is delivered to it.
VerifyPayment(paymentData, userId) ==
    /\ IF DOMAIN paymentData = {} \/ userId = ""
       THEN /\ lastOp' = Responded("verify", 400)
            /\ UNCHANGED <<payments, orders, verifying>>
       ELSE \E result \in {VerifyResult(orders, paymentData)} :
               /\ IF result = "ok"
                  THEN \E order \in {orders[paymentData.razorpay_order_id]} :
                          /\ payments' = Put(payments, paymentData.razorpay_payment_id,
                                             PaymentRecord(order, paymentData))
                          /\ orders' = Put(orders, paymentData.razorpay_order_id,
                                           PaidOrder(order, paymentData))
                  ELSE UNCHANGED <<payments, orders>>
               /\ verifying' = Suspend(verifying, Verification(result, paymentData, userId))
               /\ lastOp' = Responded("verify", 0)
    /\ UNCHANGED <<users, sessions, sessionHeap, astroCache, userStates,
                   requests, now>>

\* the verification handler from the await of line 1059 to its response:
\* with the result of verifyPayment it reads the user's state, makes it
\* premium with the terms of the order object the call returned (lines
\* 1061-1076) and answers 200; with its error it answers 500 (line 1093).
\* result.order and result.payment are the objects the maps hold, which no
\* operation replaces, so they are read from the maps by their ids.
VerifyPaymentReturn(v) ==
    LET order == orders[v.orderId]
        payment == payments[v.paymentId]
        userState == IF v.userId \in DOMAIN userStates
                     THEN userStates[v.userId] ELSE DefaultState
    IN  /\ BagIn(v, verifying)
        /\ verifying' = Resume(verifying, v)
        /\ IF v.result = "ok"
           THEN /\ userStates' = Put(userStates, v.userId,
                                     ApplyPayment(userState, order, payment))
                /\ lastOp' = Responded("verify", 200)
           ELSE /\ lastOp' = Failed("verify", 500, v.result)
                /\ UNCHANGED userStates
        /\ UNCHANGED <<users, sessions, sessionHeap, astroCache, orders, payments,
                       requests, now>>

\* the order after lines 159-161
FailedOrder(order, errorData) ==
    Put(Put(Put(order, "status", "failed"), "error", errorData), "failedAt", now)

\* POST /api/payment/failure with PaymentService.handlePaymentFailure.
\* errorData is <<description>> when the request carries one and <<>> when
\* it carries none; errorData.description of an absent errorData throws
\* (line 167) after the order was updated.
PaymentFailure(orderId, errorData) ==
    /\ IF Len(orderId) = 0
       THEN /\ lastOp' = Responded("failure", 400)
            /\ UNCHANGED orders
       ELSE /\ orders' = IF orderId \in DOMAIN orders
                         THEN Put(orders, orderId, FailedOrder(orders[orderId], errorData))
                         ELSE orders
            /\ lastOp' = Responded("failure", IF Len(errorData) = 0 THEN 500 ELSE 200)
    /\ UNCHANGED <<users, sessions, sessionHeap, astroCache, userStates,
                   payments, requests, now, verifying>>

\* validateWebhook (lines 223-235)
ValidateWebhook(body, signature) == Hmac(WebhookSecret, body) = signature

\* POST /api/payment/webhook with processWebhook, which only logs
Webhook(body, signature) ==
    /\ lastOp' = Responded("webhook", IF ValidateWebhook(body, signature) THEN 200 ELSE 400)
    /\ UNCHANGED <<users, sessions, sessionHeap, astroCache, userStates,
                   orders, payments, requests, now, verifying>>

\* time passes
Tick(d) ==
    /\ now' = now + d
    /\ lastOp' = Responded("tick", 0)
    /\ UNCHANGED <<users, sessions, sessionHeap, astroCache, userStates,
                   orders, payments, requests, verifying>>

(***************************************************************************)
(* Inputs of the specifications.                                            *)
(***************************************************************************)
UserIdPool == {"u1"}
GenderFemale == <<"f","e","m","a","l","e">>
BirthDate == <<"1","9","9","0","-","0","1","-","0","1">>
BirthTime == <<"1","0",":","0","0">>
ChatUserIds == {"u1"}
SessionIds == {"s1"}
Responses == {ResponseText}
FetchResults == {[e \in Range(Apis) |-> "data"]}
Places == {<<"M","u","m","b","a","i">>}
GeoResults == {[ok |-> FALSE]}
OrderIds == {<<"o","1">>}
PaymentIds == {<<"p","1">>}

\* a signature with its i-th character replaced by the next hexadecimal digit
NextHex(c) == HexDigits[((CHOOSE i \in DOMAIN HexDigits : HexDigits[i] = c) % 16) + 1]
MutateSignature(sig, i) == [sig EXCEPT ![i] = NextHex(@)]
ValidSignatures(oids, pids) ==
    {Hmac(KeySecret, SignedMessage(o, p)) : o \in oids, p \in pids}
SignatureInputs(oids, pids) ==
    ValidSignatures(oids, pids)
    \cup {MutateSignature(sig, i) : sig \in ValidSignatures(oids, pids), i \in 1..2}
    \cup {<<>>}
PaymentDataInputs(oids, pids) ==
    [razorpay_order_id : oids, razorpay_payment_id : pids,
     razorpay_signature : SignatureInputs(oids, pids)]

\* bounds on the counters a handler increments without limit
WithinBounds(userId, sessionId) ==
    /\ BagCardinality(requests) < MaxHandlers
    /\ userId \in DOMAIN userStates => userStates[userId].totalQuestions < MaxTotal
    /\ sessionId \in DOMAIN sessions
          => sessionHeap[sessions[sessionId]].queryCount < MaxQueryCount

ChatInputs == Messages \ {<<>>}
SpecPaymentData ==
    {pd \in PaymentDataInputs(OrderIds, PaymentIds) :
        pd.razorpay_signature \in
            {Hmac(KeySecret, SignedMessage(pd.razorpay_order_id, pd.razorpay_payment_id)),
             MutateSignature(Hmac(KeySecret, SignedMessage(pd.razorpay_order_id,
                                                           pd.razorpay_payment_id)), 1)}}

Next ==
    \/ \E id \in UserIdPool, place \in Places, geo \in GeoResults :
          CreateUser(<<"A">>, GenderFemale, BirthDate, BirthTime, place, geo, id)
    \/ \E u \in ChatUserIds, sid \in SessionIds, m \in ChatInputs :
          WithinBounds(u, sid) /\ ChatMessage(u, sid, m)
    \/ \E req \in BagToSet(requests), results \in FetchResults : FetchReturn(req, results)
    \/ \E req \in BagToSet(requests), response \in Responses : GenerateOk(req, response)
    \/ \E req \in BagToSet(requests) : GenerateFail(req)
    \/ \E u \in ChatUserIds, plan \in {"standard"}, o \in OrderIds :
          CreateOrder(u, plan, TRUE, o)
    \/ \E pd \in SpecPaymentData, u \in ChatUserIds :
          BagCardinality(verifying) < MaxVerifications /\ VerifyPayment(pd, u)
    \/ \E v \in BagToSet(verifying) : VerifyPaymentReturn(v)

Spec == Init /\ [][Next]_vars

(***************************************************************************)
(* The payment operations, with one chat handler and at most                *)
(* MaxVerifications verification handlers in flight at a time.              *)
(***************************************************************************)
MaxPayQuestions == 1

UnknownOrderId == <<"o","2">>
PayUserIds == {"u1", "ux", ""}
\* a request body may leave userId or sessionId out
PayOrderIdInputs == OrderIds \cup {UnknownOrderId, <<>>}
PayPaymentIds == {<<"p","1">>, <<"p","2">>}
PayChatInputs == {TextJob}
ErrorDataInputs == {<<>>, <<"declined">>}
\* the signatures tried for a pair: the valid one, its single-character
\* mutations, its first character alone, the valid one of the pair with the
\* ids swapped, and none
SignaturesFor(orderId, paymentId) ==
    LET valid == Hmac(KeySecret, SignedMessage(orderId, paymentId))
    IN  {valid, MutateSignature(valid, 1), MutateSignature(valid, 2),
         SubSeq(valid, 1, 1), Hmac(KeySecret, SignedMessage(paymentId, orderId)), <<>>}
PayPaymentData ==
    UNION {{[razorpay_order_id |-> o, razorpay_payment_id |-> p,
              razorpay_signature |-> sig] : sig \in SignaturesFor(o, p)} :
              o \in OrderIds, p \in PayPaymentIds}
    \cup {[razorpay_order_id |-> UnknownOrderId, razorpay_payment_id |-> p,
           razorpay_signature |-> Hmac(KeySecret, SignedMessage(UnknownOrderId, p))] :
              p \in PayPaymentIds}
    \cup {[razorpay_order_id |-> o, razorpay_payment_id |-> <<>>,
           razorpay_signature |-> Hmac(KeySecret, SignedMessage(o, <<>>))] : o \in OrderIds}
    \cup {[razorpay_order_id |-> <<>>, razorpay_payment_id |-> p,
           razorpay_signature |-> Hmac(KeySecret, SignedMessage(<<>>, p))] : p \in PayPaymentIds}
    \cup {<<>>}
WebhookSignatures == {Hmac(WebhookSecret, <<"e">>), <<"0","0","0">>}

\* every payment payload for the paying user, the accepted ones for a user
\* who never registered, and one request without a user id
VerifyInputs ==
    {<<pd, "u1">> : pd \in PayPaymentData}
    \cup {<<[razorpay_order_id |-> o, razorpay_payment_id |-> p,
             razorpay_signature |-> Hmac(KeySecret, SignedMessage(o, p))], "ux">> :
             o \in OrderIds, p \in PayPaymentIds}
    \cup {<<<<>>, "">>}

\* the questions a user may still ask: MaxPayQuestions before paying and
\* MaxPayQuestions after each verification
QuestionsLeft(userState) ==
    IF userState.isPremium
    THEN userState.totalQuestions < userState.remainingQuestions + MaxPayQuestions
    ELSE userState.totalQuestions < MaxPayQuestions

PayWithinBounds(userId, sessionId) ==
    /\ requests = EmptyBag
    /\ userId \in DOMAIN userStates => QuestionsLeft(userStates[userId])
    /\ sessionId \notin DOMAIN sessions

NextPay ==
    \/ \E id \in UserIdPool, place \in Places, geo \in GeoResults :
          CreateUser(<<"A">>, GenderFemale, BirthDate, BirthTime, place, geo, id)
    \/ \E u \in ChatUserIds \cup {""}, sid \in SessionIds \cup {""}, m \in PayChatInputs :
          PayWithinBounds(u, sid) /\ ChatMessage(u, sid, m)
    \/ \E req \in BagToSet(requests), results \in FetchResults : FetchReturn(req, results)
    \/ \E req \in BagToSet(requests), response \in Responses : GenerateOk(req, response)
    \/ \E req \in BagToSet(requests) : GenerateFail(req)
    \/ \E u \in ChatUserIds \cup {""}, plan \in {"basic", "gold", "constructor"},
          ok \in BOOLEAN, o \in OrderIds :
          CreateOrder(u, plan, ok, o)
    \/ \E in \in VerifyInputs :
          BagCardinality(verifying) < MaxVerifications /\ VerifyPayment(in[1], in[2])
    \/ \E v \in BagToSet(verifying) : VerifyPaymentReturn(v)
    \/ \E o \in PayOrderIdInputs, e \in ErrorDataInputs : PaymentFailure(o, e)
    \/ \E b \in {<<"e">>}, sig \in WebhookSignatures : Webhook(b, sig)
SpecPay == Init /\ [][NextPay]_vars

(***************************************************************************)
(* Order creation with two order ids, two users and the gateway accepting   *)
(* or failing, among failure reports.                                       *)
(***************************************************************************)
\* the body of an order request, with what the gateway answers: a missing
\* user id or plan type is "", gold has no plan and constructor is a name
\* this.plans inherits
OrderRequests ==
    [userId : {"u1", "ux", ""},
     planType : {"basic", "report", "gold", "constructor", ""},
     gatewayOk : BOOLEAN,
     orderId : {<<"o","1">>, <<"o","2">>}]

NextOrder ==
    \/ \E r \in OrderRequests : CreateOrder(r.userId, r.planType, r.gatewayOk, r.orderId)
    \/ \E o \in {<<"o","1">>, <<"o","2">>} : PaymentFailure(o, <<"declined">>)
SpecOrder == Init /\ [][NextOrder]_vars

(***************************************************************************)
(* Profile creation with the geocoding service answering or failing.        *)
(***************************************************************************)
ProfileIds == {"u1", "u2", "u3"}
PlaceMumbai == <<"M","u","m","b","a","i">>
PlacePune == <<" ","P","U","N","E"," ">>
PlaceUnknown == <<"A","t","l","a","n","t","i","s">>
PlaceConstructor == <<"c","o","n","s","t","r","u","c","t","o","r">>
\* the last place is a city key between a vertical tab and a carriage
\* return, which trim() strips
PlaceInputs == {PlaceMumbai, PlacePune, PlaceUnknown, PlaceConstructor,
                <<"","p","u","n","e","\r">>}
GeoInputs ==
    {[ok |-> FALSE],
     [ok |-> TRUE, latitude |-> 1, longitude |-> 2, timezone |-> "Asia/Kolkata"]}
\* the gender, birthDate and birthTime of a request body: well formed, in
\* another case, malformed or missing
ProfileFields ==
    [gender : {GenderFemale, <<"F","e","m","a","l","e">>, <<"x">>, <<>>},
     birthDate : {BirthDate, <<"1","9","9","0","/","0","1","/","0","1">>, <<>>},
     birthTime : {BirthTime, <<"1","0","0","0">>}]

NextProfile ==
    \E id \in ProfileIds, place \in PlaceInputs, geo \in GeoInputs, f \in ProfileFields :
       CreateUser(<<"A">>, f.gender, f.birthDate, f.birthTime, place, geo, id)

SpecProfile == Init /\ [][NextProfile]_vars

(***************************************************************************)
(* The classifier at work: messages with the classifier texts, one handler  *)
(* at a time; the classification of a message is in the prompt context of   *)
(* its request and in the exchange the session records.                     *)
(***************************************************************************)
MaxClassifyQuestions == 2

ClassifyWithinBounds(userId) ==
    /\ requests = EmptyBag
    /\ userId \in DOMAIN users
    /\ userStates[userId].totalQuestions < MaxClassifyQuestions

NextClassify ==
    \/ \E id \in UserIdPool, place \in Places, geo \in GeoResults :
          CreateUser(<<"A">>, GenderFemale, BirthDate, BirthTime, place, geo, id)
    \/ \E u \in ChatUserIds, sid \in SessionIds, m \in ClassifyTexts :
          ClassifyWithinBounds(u) /\ ChatMessage(u, sid, m)
    \/ \E req \in BagToSet(requests), results \in FetchResults : FetchReturn(req, results)
    \/ \E req \in BagToSet(requests), response \in Responses : GenerateOk(req, response)

SpecClassify == Init /\ [][NextClassify]_vars

(***************************************************************************)
(* The data cache over time, with one chat handler at a time and a provider *)
(* whose endpoints answer or fail.                                          *)
(***************************************************************************)
MaxNow == 7200001
MaxCacheQuestions == 3

\* the clock advances by the expiry window or by one millisecond more

\* what fetchAstrologyData stores for an endpoint that answered (line 170),
\* for one that answered with an error status (lines 180-185; the status has
\* three digits) and for one whose request threw (lines 189-193)
EndpointData(v) == [success |-> TRUE, data |-> v]
EndpointApiError(status, statusText, errorText) ==
    [error |-> TRUE,
     status |-> status,
     message |-> <<"A","P","I"," ","e","r","r","o","r",":"," ">>
                 \o <<Digits[(status \div 100) + 1], Digits[((status \div 10) % 10) + 1],
                      Digits[(status % 10) + 1]>>
                 \o <<" ">> \o statusText,
     details |-> IF Len(errorText) > 200
                 THEN SubSeq(errorText, 1, 200) \o <<".",".",".">>
                 ELSE errorText]
EndpointError(errorMessage) ==
    [error |-> TRUE,
     message |-> <<"N","e","t","w","o","r","k"," ","e","r","r","o","r",":"," ">>
                 \o errorMessage,
     fallback |-> TRUE]

AllEndpoints(r) == [e \in Range(Apis) |-> r]
\* the provider answers every endpoint, throws for every endpoint (fetch
\* failed), answers 503 with a long body for every endpoint, or answers one
\* endpoint and throws for the other
CacheFetchResults ==
    {AllEndpoints(EndpointData(v)) : v \in {"v1", "v2"}}
    \cup {AllEndpoints(EndpointError(<<"f","e","t","c","h"," ","f","a","i","l","e","d">>)),
          AllEndpoints(EndpointApiError(503, <<"S","e","r","v","i","c","e"," ",
                                               "U","n","a","v","a","i","l","a","b","l","e">>,
                                        [i \in 1..201 |-> "x"])),
          [e \in Range(Apis) |-> IF e = Apis[1] THEN EndpointData("v1")
                                 ELSE EndpointError(<<"t","i","m","e","o","u","t">>)]}

CacheWithinBounds(userId) ==
    /\ requests = EmptyBag
    /\ userId \in DOMAIN users
    /\ userStates[userId].totalQuestions < MaxCacheQuestions

NextCache ==
    \/ \E id \in UserIdPool, place \in Places, geo \in GeoResults :
          CreateUser(<<"A">>, GenderFemale, BirthDate, BirthTime, place, geo, id)
    \/ \E u \in ChatUserIds, sid \in SessionIds, m \in PayChatInputs :
          CacheWithinBounds(u) /\ ChatMessage(u, sid, m)
    \/ \E req \in BagToSet(requests), results \in CacheFetchResults :
          FetchReturn(req, results)
    \/ \E req \in BagToSet(requests), response \in Responses : GenerateOk(req, response)
    \/ \E req \in BagToSet(requests) : GenerateFail(req)
    \/ \E d \in {CacheExpiry, CacheExpiry + 1} : now + d <= MaxNow /\ Tick(d)

SpecCache == Init /\ [][NextCache]_vars

\* every collaborator call returns: the provider answers a waiting handler,
\* and the generation answers or fails
ProviderReturns ==
    \E req \in BagToSet(requests), results \in CacheFetchResults : FetchReturn(req, results)
GenerationReturns ==
    \E req \in BagToSet(requests) :
       \/ \E response \in Responses : GenerateOk(req, response)
       \/ GenerateFail(req)

SpecCacheFair ==
    SpecCache /\ WF_vars(ProviderReturns) /\ WF_vars(GenerationReturns)

(***************************************************************************)
(* One session through many exchanges, one after the other, every           *)
(* generation answering; the k-th message and its answer name k.  A purchase *)
(* lets the user go past the free questions.                                *)
(***************************************************************************)
\* the number of the exchange the next message to a session starts
NextExchange(sessionId) ==
    IF sessionId \in DOMAIN sessions
    THEN sessionHeap[sessions[sessionId]].queryCount + 1
    ELSE 1

SessionWithinBounds(userId, sessionId) ==
    /\ requests = EmptyBag
    /\ userId \in DOMAIN users
    /\ NextExchange(sessionId) <= MaxSessionQueries

SessionPaymentData ==
    {pd \in SpecPaymentData : pd.razorpay_signature = Hmac(KeySecret,
          SignedMessage(pd.razorpay_order_id, pd.razorpay_payment_id))}

\* a plan with an allowance and the plan whose allowance is 0

NextSession ==
    \/ \E id \in UserIdPool, place \in Places, geo \in GeoResults :
          CreateUser(<<"A">>, GenderFemale, BirthDate, BirthTime, place, geo, id)
    \/ \E u \in ChatUserIds, sid \in SessionIds :
          /\ SessionWithinBounds(u, sid)
          /\ ChatMessage(u, sid, SessionText(NextExchange(sid)))
    \/ \E req \in BagToSet(requests), results \in FetchResults : FetchReturn(req, results)
    \/ \E req \in BagToSet(requests) :
          GenerateOk(req, SessionResponse(sessionHeap[req.session].queryCount))
    \/ \E u \in ChatUserIds, plan \in {"standard", "report"}, o \in OrderIds :
          CreateOrder(u, plan, TRUE, o)
    \/ \E pd \in SessionPaymentData, u \in ChatUserIds :
          BagCardinality(verifying) < MaxVerifications /\ VerifyPayment(pd, u)
    \/ \E v \in BagToSet(verifying) : VerifyPaymentReturn(v)

SpecSession == Init /\ [][NextSession]_vars

(***************************************************************************)
(* Claims.                                                                  *)
(***************************************************************************)
\* the user state a handler reads for userId (lines 1377-1382)
StateOf(userId) ==
    IF userId \in DOMAIN userStates THEN userStates[userId] ELSE DefaultChatState
IsOverviewText(m) == Classify(Trim(m)).isGeneralOverview

QuotaRespected ==
    \A u \in DOMAIN userStates :
        ~userStates[u].isPremium => userStates[u].freeQuestionsUsed <= FreeLimit
FreeNonDecreasing ==
    \A u \in DOMAIN userStates :
        /\ u \in DOMAIN userStates'
        /\ userStates'[u].freeQuestionsUsed >= userStates[u].freeQuestionsUsed

\* C1: in every reachable state every non-premium user has freeQuestionsUsed
\* at most 10, and no step of any handler, under any interleaving of the
\* suspended chat handlers, decreases a user's freeQuestionsUsed.
C1_FreeQuota == QuotaRespected /\ [][QuotaRespected' /\ FreeNonDecreasing]_vars

\* a non-premium user is at the limit while two chat handlers are suspended
C1_Witness ==
    /\ BagCardinality(requests) = 2
    /\ \E u \in DOMAIN userStates :
          ~userStates[u].isPremium /\ userStates[u].freeQuestionsUsed = FreeLimit

\* C2: a message of a non-premium user with freeQuestionsUsed = 10 that is
\* not that user's first general-overview request is answered 402, suspends
\* no handler (so no generation call follows), and leaves the user states,
\* the sessions and the cache as they were.
C2_RejectAtLimit ==
    [][\A u \in ChatUserIds, sid \in SessionIds, m \in ChatInputs :
          (/\ ~StateOf(u).isPremium
           /\ StateOf(u).freeQuestionsUsed = FreeLimit
           /\ ~(IsOverviewText(m) /\ ~Truthy(StateOf(u), "hasReceivedOverview"))
           /\ ChatMessage(u, sid, m))
          => /\ lastOp' = Responded("chat", 402)
             /\ UNCHANGED <<userStates, sessions, sessionHeap, astroCache, requests>>]_vars

\* a message was just rejected for a user at the limit
C2_Witness ==
    /\ lastOp = Responded("chat", 402)
    /\ \E u \in DOMAIN userStates :
          ~userStates[u].isPremium /\ userStates[u].freeQuestionsUsed = FreeLimit

\* C3: a general-overview message of a user who has not received the overview
\* is not rejected, leaves freeQuestionsUsed as it was and sets
\* hasReceivedOverview; the flag is never cleared; a general-overview message
\* of a user who has received it is rejected at the limit, charged below it,
\* and passes uncharged when the user is premium.
C3_OverviewOnce ==
    [][/\ \A u \in DOMAIN userStates :
             Truthy(userStates[u], "hasReceivedOverview")
                => u \in DOMAIN userStates' /\ Truthy(userStates'[u], "hasReceivedOverview")
       /\ \A u \in ChatUserIds, sid \in SessionIds, m \in ChatInputs :
             (IsOverviewText(m) /\ ChatMessage(u, sid, m))
             => IF ~Truthy(StateOf(u), "hasReceivedOverview")
                THEN /\ lastOp'.status # 402
                     /\ userStates'[u].freeQuestionsUsed = StateOf(u).freeQuestionsUsed
                     /\ Truthy(userStates'[u], "hasReceivedOverview")
                ELSE IF StateOf(u).isPremium
                THEN lastOp'.status # 402 /\ userStates'[u] .freeQuestionsUsed
                                              = StateOf(u).freeQuestionsUsed
                ELSE IF StateOf(u).freeQuestionsUsed >= FreeLimit
                THEN lastOp'.status = 402 /\ UNCHANGED userStates
                ELSE /\ lastOp'.status # 402
                     /\ userStates'[u].freeQuestionsUsed
                           = StateOf(u).freeQuestionsUsed + 1]_vars

\* two general-overview messages of one user are being processed, the first
\* free and the second charged
C3_Witness ==
    \E u \in DOMAIN userStates :
        /\ userStates[u].freeQuestionsUsed = 1
        /\ Truthy(userStates[u], "hasReceivedOverview")
        /\ BagCardinality(requests) = 2
        /\ \A req \in BagToSet(requests) : req.userId = u /\ IsOverviewText(req.message)

IsPremium(states, u) == u \in DOMAIN states /\ states[u].isPremium
\* the HMAC of `orderId|paymentId` under the gateway secret
ExpectedSignature(pd) ==
    Hmac(KeySecret, pd.razorpay_order_id \o <<"|">> \o pd.razorpay_payment_id)
SignatureMismatch == "Payment verification failed: Invalid payment signature"
\* the verification requests whose signature is the expected one
SignedInputs ==
    {in \in VerifyInputs :
        DOMAIN in[1] # {} /\ in[1].razorpay_signature = ExpectedSignature(in[1])}

\* C4: once a user's isPremium is true, no step of any operation (message,
\* verification that succeeds or fails, failure report, webhook event) makes
\* it false or removes the user's state.
C4_PremiumMonotonic ==
    [][\A u \in DOMAIN userStates :
          userStates[u].isPremium => IsPremium(userStates', u)]_vars

\* a premium user's order was reported failed after it had been paid
C4_Witness ==
    \E u \in DOMAIN userStates, o \in DOMAIN orders :
        /\ userStates[u].isPremium
        /\ orders[o].status = "failed"
        /\ "paymentId" \in DOMAIN orders[o]
        /\ lastOp.op = "failure"

\* C5: a user's isPremium becomes true only in the step of the verification
\* handler that follows a verifyPayment call which accepted the payload, for
\* the user the request named, and that step answers 200; the steps of every
\* other handler leave isPremium alone.  At every moment a suspended handler
\* holds an accepted payload only if its payment is recorded for its order.
C5_PremiumOnlyByVerify ==
    [](\A v \in BagToSet(verifying) :
          v.result = "ok"
          => /\ v.paymentId \in DOMAIN payments
             /\ payments[v.paymentId].orderId = v.orderId) /\
    [][\A u \in PayUserIds \cup DOMAIN userStates' :
          (IsPremium(userStates', u) /\ ~IsPremium(userStates, u))
          => /\ lastOp' = Responded("verify", 200)
             /\ \E v \in BagToSet(verifying) :
                   /\ v.userId = u
                   /\ v.result = "ok"
                   /\ VerifyPaymentReturn(v)]_vars

\* a user who had used free questions has just been made premium
C5_Witness ==
    /\ lastOp = Responded("verify", 200)
    /\ \E u \in DOMAIN userStates :
          userStates[u].isPremium /\ userStates[u].freeQuestionsUsed >= 1

\* C6: for an order in the order store and a payload with all three fields,
\* verifyPayment accepts the payload exactly when the supplied signature
\* equals the HMAC of `orderId|paymentId`, and throws the signature mismatch
\* for any other supplied signature, a single-character mutation included;
\* the handler then answers 200 for an accepted payload and 500 with the
\* error otherwise.
C6_SignatureIff ==
    [][/\ \A in \in VerifyInputs :
             (/\ lastOp' = Responded("verify", 0)
              /\ DOMAIN in[1] # {}
              /\ in[2] # ""
              /\ in[1].razorpay_order_id \in DOMAIN orders
              /\ Len(in[1].razorpay_payment_id) > 0
              /\ Len(in[1].razorpay_signature) > 0
              /\ VerifyPayment(in[1], in[2]))
             => LET outcome == IF in \in SignedInputs THEN "ok" ELSE SignatureMismatch
                IN  /\ verifying' = Suspend(verifying, Verification(outcome, in[1], in[2]))
                    /\ (payments' # payments) => in \in SignedInputs
                    /\ in \in SignedInputs
                          => in[1].razorpay_payment_id \in DOMAIN payments'
       /\ \A v \in BagToSet(verifying) :
             VerifyPaymentReturn(v)
             => lastOp' = (IF v.result = "ok"
                           THEN Responded("verify", 200)
                           ELSE Failed("verify", 500, v.result))]_vars

\* a signature was refused for an order that an earlier signature had paid
C6_Witness ==
    /\ lastOp = Failed("verify", 500, SignatureMismatch)
    /\ \E o \in DOMAIN orders : orders[o].status = "paid"

\* the payload or the request makes the verification fail
VerifyFails(in) ==
    \/ DOMAIN in[1] = {}
    \/ in[2] = ""
    \/ Len(in[1].razorpay_order_id) = 0
    \/ Len(in[1].razorpay_payment_id) = 0
    \/ Len(in[1].razorpay_signature) = 0
    \/ in[1].razorpay_order_id \notin DOMAIN orders
    \/ in \notin SignedInputs

\* C7: a verification that fails (request incomplete, field missing, order
\* unknown, signature mismatch) creates no payment record and leaves every
\* order's status and every user's state unchanged, in the step that calls
\* verifyPayment and in the step that answers the error.
C7_FailedVerifyFrame ==
    [][/\ \A in \in VerifyInputs :
             (/\ lastOp'.op = "verify"
              /\ lastOp'.status \in {0, 400}
              /\ VerifyFails(in)
              /\ VerifyPayment(in[1], in[2]))
             => /\ UNCHANGED <<payments, userStates>>
                /\ DOMAIN orders' = DOMAIN orders
                /\ \A o \in DOMAIN orders : orders'[o].status = orders[o].status
                /\ \/ lastOp'.status = 400 /\ UNCHANGED verifying
                   \/ \E v \in BagToSet(verifying') :
                         v.result # "ok" /\ verifying' = Suspend(verifying, v)
       /\ \A v \in BagToSet(verifying) :
             (v.result # "ok" /\ VerifyPaymentReturn(v))
             => /\ lastOp' = Failed("verify", 500, v.result)
                /\ UNCHANGED <<payments, userStates, orders>>]_vars

\* a signature was refused while the order is unpaid, and nobody is premium
C7_Witness ==
    /\ lastOp = Failed("verify", 500, SignatureMismatch)
    /\ payments = <<>>
    /\ \E o \in DOMAIN orders : orders[o].status = "created"
    /\ \A u \in DOMAIN userStates : ~userStates[u].isPremium

\* C8: a second verification of a payload already verified for the user
\* leaves remainingQuestions at the plan's allowance and leaves
\* totalQuestions, remainingQuestions, freeQuestionsUsed and isPremium as
\* they were just before it, whatever messages were handled in between.
C8_VerifyTwice ==
    [][\A v \in BagToSet(verifying) :
          (/\ v.result = "ok"
           /\ v.userId \in DOMAIN userStates
           /\ "paymentId" \in DOMAIN userStates[v.userId]
           /\ userStates[v.userId].paymentId = v.paymentId
           /\ VerifyPaymentReturn(v))
          => /\ userStates'[v.userId].remainingQuestions = orders[v.orderId].plan.questions
             /\ userStates'[v.userId].totalQuestions = userStates[v.userId].totalQuestions
             /\ userStates'[v.userId].remainingQuestions
                   = userStates[v.userId].remainingQuestions
             /\ userStates'[v.userId].freeQuestionsUsed
                   = userStates[v.userId].freeQuestionsUsed
             /\ userStates'[v.userId].isPremium = userStates[v.userId].isPremium]_vars

\* C9: a verification of an order that is already paid changes neither the
\* payment store nor the order, and an order that was paid before never
\* becomes paid a second time.
C9_PaidOnce ==
    [][/\ \A in \in VerifyInputs :
             (/\ lastOp' = Responded("verify", 0)
              /\ DOMAIN in[1] # {}
              /\ in[1].razorpay_order_id \in DOMAIN orders
              /\ orders[in[1].razorpay_order_id].status = "paid"
              /\ VerifyPayment(in[1], in[2]))
             => UNCHANGED <<payments, orders>>
       /\ \A o \in DOMAIN orders :
             ("paymentId" \in DOMAIN orders[o] /\ orders[o].status # "paid")
                => orders'[o].status # "paid"]_vars

PaymentsRefer ==
    \A p \in DOMAIN payments :
        /\ payments[p].id = p
        /\ payments[p].orderId \in DOMAIN orders
        /\ "paymentId" \in DOMAIN orders[payments[p].orderId]
\* verifyPayment accepts a payload only for an order of the order store and
\* the expected signature; the order store alone decides it
AcceptedOnlyIfSigned ==
    \A in \in VerifyInputs :
        (DOMAIN in[1] # {} /\ VerifyResult(orders, in[1]) = "ok")
        => /\ in[1].razorpay_order_id \in DOMAIN orders
           /\ in[1].razorpay_signature = ExpectedSignature(in[1])

\* C10: every payment record names an order of the order store that a
\* verification has marked; verifyPayment accepts only the expected
\* signature; and the payment store changes only in a step of the
\* verification handler whose payload carries the expected signature for its
\* (orderId, paymentId) pair, which writes the record of that pair alone.
C10_PaymentsVerified ==
    PaymentsRefer /\ AcceptedOnlyIfSigned /\
    [][/\ PaymentsRefer'
       /\ UNCHANGED orders \/ AcceptedOnlyIfSigned'
       /\ payments' # payments
             => \E in \in VerifyInputs :
                   /\ DOMAIN in[1] # {}
                   /\ in[1].razorpay_order_id \in DOMAIN orders
                   /\ in[1].razorpay_signature = ExpectedSignature(in[1])
                   /\ VerifyPayment(in[1], in[2])
                   /\ DOMAIN payments' = DOMAIN payments \cup {in[1].razorpay_payment_id}
                   /\ payments'[in[1].razorpay_payment_id].orderId = in[1].razorpay_order_id
                   /\ \A q \in DOMAIN payments \ {in[1].razorpay_payment_id} :
                         payments'[q] = payments[q]]_vars

\* two payment records exist and a failure was reported afterwards
C10_Witness ==
    /\ Cardinality(DOMAIN payments) = 2
    /\ lastOp.op = "failure"

\* C11: verifyPayment called with a payment id and the expected signature for
\* an order whose status is failed, however often it was reported failed,
\* accepts the payload, records the payment and leaves the order paid, and
\* the handler of an accepted payload answers 200.
C11_FailureNotTerminal ==
    [][/\ \A in \in SignedInputs :
             (/\ lastOp' = Responded("verify", 0)
              /\ in[2] # ""
              /\ in[1].razorpay_order_id \in DOMAIN orders
              /\ Len(in[1].razorpay_payment_id) > 0
              /\ orders[in[1].razorpay_order_id].status = "failed"
              /\ VerifyPayment(in[1], in[2]))
             => /\ orders'[in[1].razorpay_order_id].status = "paid"
                /\ in[1].razorpay_payment_id \in DOMAIN payments'
                /\ BagIn(Verification("ok", in[1], in[2]), verifying')
       /\ \A v \in BagToSet(verifying) :
             (v.result = "ok" /\ VerifyPaymentReturn(v))
             => /\ lastOp' = Responded("verify", 200)
                /\ IsPremium(userStates', v.userId)]_vars

\* an order that was reported failed before any payment has just been paid
C11_Witness ==
    /\ lastOp = Responded("verify", 200)
    /\ Cardinality(DOMAIN payments) = 1
    /\ \E o \in DOMAIN orders :
          /\ orders[o].status = "paid"
          /\ "failedAt" \in DOMAIN orders[o]
          /\ \A u \in DOMAIN userStates :
                userStates[u].isPremium => userStates[u].paymentId = orders[o].paymentId

\* C12: when the generation fails, the session the message addressed is as the
\* store held it when the message arrived: absent if it was absent, and with
\* the same messages, context and queryCount if it was present.
C12_FailureLeavesSession ==
    [][\A req \in BagToSet(requests) :
          GenerateFail(req)
          => IF req.before = <<>>
             THEN req.sessionId \notin DOMAIN sessions'
             ELSE /\ req.sessionId \in DOMAIN sessions'
                  /\ LET after == sessionHeap'[sessions'[req.sessionId]]
                     IN  /\ after.messages = req.before[1].messages
                         /\ after.context = req.before[1].context
                         /\ after.queryCount = req.before[1].queryCount]_vars


\* C13: a message of a stored, non-premium user that the gate charges raises
\* freeQuestionsUsed by one when its handling starts, and neither the return
\* of the provider nor the failure of the generation changes the user states:
\* the question stays counted.
C13_FailedGenerationCharged ==
    [][/\ \A u \in ChatUserIds, sid \in SessionIds, m \in ChatInputs :
             (/\ u \in DOMAIN users
              /\ ~StateOf(u).isPremium
              /\ GateDecision(StateOf(u), Classify(Trim(m))) = "charge"
              /\ ChatMessage(u, sid, m))
             => /\ lastOp' = Responded("chat", 0)
                /\ userStates'[u].freeQuestionsUsed = StateOf(u).freeQuestionsUsed + 1
       /\ lastOp'.op = "fetched" => UNCHANGED userStates
       /\ \A req \in BagToSet(requests) :
             GenerateFail(req) => UNCHANGED userStates]_vars

\* the only message of a user has been charged and its generation has failed
C13_Witness ==
    /\ lastOp = Responded("generated", 500)
    /\ requests = EmptyBag
    /\ \E u \in DOMAIN users :
          /\ ~userStates[u].isPremium
          /\ ~Truthy(userStates[u], "hasReceivedOverview")
          /\ userStates[u].totalQuestions = 1
          /\ userStates[u].freeQuestionsUsed = 1

\* C14: a valid message for a user id that is not in the user store is
\* answered with the user-not-found failure (status 500 of the chat route) and
\* starts no handler that would call the generation.
C14_UnknownUser ==
    [][\A u \in ChatUserIds, sid \in SessionIds, m \in ChatInputs :
          (u \notin DOMAIN users /\ ChatMessage(u, sid, m))
          => /\ lastOp' = Responded("chat", 500)
             /\ UNCHANGED requests]_vars

\* C15: a stored session that has completed n exchanges, each started after
\* the one before had ended, holds min(n, 10) messages, and its i-th message
\* is exchange n - min(n, 10) + i: the most recent ones, oldest first.
C15_Retention ==
    \A sid \in DOMAIN sessions :
       LET obj == sessions[sid]
           session == sessionHeap[obj]
           started == Cardinality({req \in BagToSet(requests) : req.session = obj})
           n == session.queryCount - started
           len == Len(session.messages)
       IN  /\ len = IF n < 10 THEN n ELSE 10
           /\ \A i \in 1..len :
                 /\ session.messages[i].user = SessionText(n - len + i)
                 /\ session.messages[i].bot = SessionResponse(n - len + i)

\* fifteen exchanges are complete and the list starts at the sixth
C15_Witness ==
    /\ requests = EmptyBag
    /\ \E sid \in DOMAIN sessions :
          LET session == sessionHeap[sessions[sid]]
          IN  /\ session.queryCount = 15
              /\ Len(session.messages) = 10
              /\ session.messages[1].user = SessionText(6)
              /\ session.messages[10].bot = SessionResponse(15)

\* C20: the history in the prompt built for the k-th message of a session
\* that holds at least three exchanges has the user line and the generated
\* line of exchanges k-3, k-2 and k-1, and no line of an older exchange.
C20_LastThreeExchanges ==
    \A req \in BagToSet(requests) :
       LET k == sessionHeap[req.session].queryCount
           lines == IF req.context = <<>> THEN <<>>
                    ELSE Split(req.context[1].history, "\n")
           Has(line) == \E i \in DOMAIN lines : lines[i] = line
       IN  (req.context # <<>> /\ k >= 4)
           => \A j \in 1..(k - 1) :
                 IF j >= k - 3
                 THEN /\ Has(UserPrefix \o SessionText(j))
                      /\ Has(BotPrefix \o SessionResponse(j))
                 ELSE /\ ~Has(UserPrefix \o SessionText(j))
                      /\ ~Has(BotPrefix \o SessionResponse(j))

\* the cache key of a request, and whether the provider answered for every
\* endpoint or failed for every endpoint
RequestKey(req) == CacheKey(req.userId, Classify(req.message).apis)
FetchSucceeded(results) == \A e \in DOMAIN results : ~Truthy(results[e], "error")
FetchFailed(results) == \A e \in DOMAIN results : Truthy(results[e], "error")

\* C16: the handling of a message stores the entry it fetched and uses it; a
\* later message of the user that starts while that entry is within the expiry
\* window goes to the generation without a provider call and uses the stored
\* entry, payload and timestamp as they are; the entry stays as it is until
\* the handling ends.
C16_CacheReuse ==
    [][/\ \A u \in ChatUserIds, sid \in SessionIds, m \in PayChatInputs :
             LET key == CacheKey(u, Classify(Trim(m)).apis)
             IN  (/\ key \in DOMAIN astroCache
                  /\ now - astroCache[key].timestamp <= CacheExpiry
                  /\ lastOp' = Responded("chat", 0)
                  /\ ChatMessage(u, sid, m))
                 => /\ UNCHANGED astroCache
                    /\ \A req \in BagToSet(requests') :
                          /\ req.pc = "generate"
                          /\ req.astroData = <<astroCache[key]>>
                          /\ req.context[1].data = astroCache[key].data
       /\ lastOp'.op = "fetched"
             => \A req \in BagToSet(requests') :
                   req.astroData = <<astroCache'[RequestKey(req)]>>
       /\ lastOp'.op = "generated" => UNCHANGED astroCache]_vars

\* a second message, sent a full window after the entry was stored, is at the
\* generation with that entry
C16_Witness ==
    /\ lastOp = Responded("chat", 0)
    /\ \E sid \in DOMAIN sessions : Len(sessionHeap[sessions[sid]].messages) = 1
    /\ \E req \in BagToSet(requests) :
          /\ req.pc = "generate"
          /\ req.astroData = <<astroCache[RequestKey(req)]>>
          /\ req.astroData[1].timestamp = 0
          /\ now = CacheExpiry

\* C17: a message that starts its handling goes to the generation with the
\* stored entry, the cache untouched, exactly when an entry exists and
\* now - timestamp <= 3600000; otherwise it waits for the provider with no
\* prompt built.  When the provider answers for every endpoint, the entry of
\* the key becomes (the answer, timestamp now) and the prompt carries the answer.
C17_ExpiryThreshold ==
    [][/\ \A u \in ChatUserIds, sid \in SessionIds, m \in PayChatInputs :
             LET key == CacheKey(u, Classify(Trim(m)).apis)
                 usable == /\ key \in DOMAIN astroCache
                           /\ now - astroCache[key].timestamp <= 3600000
             IN  (lastOp' = Responded("chat", 0) /\ ChatMessage(u, sid, m))
                 => \A req \in BagToSet(requests') :
                       IF usable
                       THEN /\ req.pc = "generate"
                            /\ UNCHANGED astroCache
                            /\ req.context[1].data = astroCache[key].data
                       ELSE /\ req.pc = "fetch"
                            /\ req.context = <<>>
       /\ \A req \in BagToSet(requests), results \in CacheFetchResults :
             (FetchSucceeded(results) /\ FetchReturn(req, results))
             => /\ astroCache'[RequestKey(req)] =
                      [data |-> results, timestamp |-> now, cacheKey |-> RequestKey(req)]
                /\ \A after \in BagToSet(requests') :
                      /\ after.pc = "generate"
                      /\ after.context[1].data = results]_vars

\* an entry one millisecond past the window has just been replaced by the
\* provider's answer
C17_Witness ==
    /\ lastOp = Responded("fetched", 0)
    /\ now = CacheExpiry + 1
    /\ \E sid \in DOMAIN sessions : Len(sessionHeap[sessions[sid]].messages) >= 1
    /\ \E req \in BagToSet(requests) :
          /\ req.pc = "generate"
          /\ astroCache[RequestKey(req)].timestamp = now
          /\ FetchSucceeded(astroCache[RequestKey(req)].data)
          /\ req.context[1].data = astroCache[RequestKey(req)].data

\* C18: when the provider fails for every endpoint while an expired entry is
\* refreshed, the cache stays as it was and the prompt carries the payload of
\* the entry that was there.
C18_FailedRefreshKeepsEntry ==
    [][\A req \in BagToSet(requests), results \in CacheFetchResults :
          (/\ req.astroData # <<>>
           /\ FetchFailed(results)
           /\ FetchReturn(req, results))
          => /\ UNCHANGED astroCache
             /\ \A after \in BagToSet(requests') :
                   after.context[1].data = req.astroData[1].data]_vars

\* C19: when the provider fails for every endpoint and the key has no entry,
\* the entry stored under the key has an empty payload and its error flag
\* set, and the handling goes on to the generation.
C19_DegradedEntryStored ==
    [][\A req \in BagToSet(requests), results \in CacheFetchResults :
          (/\ req.astroData = <<>>
           /\ FetchFailed(results)
           /\ FetchReturn(req, results))
          => /\ RequestKey(req) \in DOMAIN astroCache'
             /\ DOMAIN astroCache'[RequestKey(req)].data = {}
             /\ Truthy(astroCache'[RequestKey(req)], "error")
             /\ \A after \in BagToSet(requests') : after.pc = "generate"]_vars

\* the classifications the program has made: of the message of every request
\* whose prompt is built, and of every exchange a session holds
Classified ==
    {[text |-> req.message, intent |-> req.context[1].intent,
      confidence |-> req.context[1].confidence,
      isGeneralOverview |-> req.context[1].isGeneralOverview] :
        req \in {r \in BagToSet(requests) : r.context # <<>>}}
    \cup UNION {{[text |-> sessionHeap[o].messages[i].user,
                  intent |-> sessionHeap[o].messages[i].classification,
                  confidence |-> sessionHeap[o].messages[i].confidence,
                  isGeneralOverview |-> sessionHeap[o].messages[i].isGeneralOverview] :
                    i \in DOMAIN sessionHeap[o].messages} : o \in DOMAIN sessionHeap}

\* C21: every confidence the classifier returns is at least 0 and at most 1.
C21_ConfidenceInUnitInterval ==
    \A c \in Classified :
       /\ c.confidence.num >= 0
       /\ c.confidence.num <= c.confidence.den

\* whether a text holds "general" together with "overview" or "reading", in
\* any letter case
HasOverviewPair(text) ==
    /\ Includes(ToLowerCase(text), KwGeneral)
    /\ \/ Includes(ToLowerCase(text), KwOverview)
       \/ Includes(ToLowerCase(text), KwReading)

\* C22: every classified text that holds "general" together with "overview"
\* or "reading" has the intent general_overview, the confidence 1 and the
\* overview flag set, whatever other keywords it holds.
C22_OverviewShortCircuit ==
    \A c \in Classified :
       HasOverviewPair(c.text)
       => /\ c.intent = "general_overview"
          /\ c.confidence.num = c.confidence.den
          /\ c.isGeneralOverview

\* a text with the pair and two career keywords, and one with the pair in other
\* letter cases inside longer words, have been classified as the overview
C22_Witness ==
    /\ \E c \in Classified : c.text = TextOverviewJob /\ c.isGeneralOverview
    /\ \E c \in Classified : c.text = TextOverviewCase /\ c.intent = "general_overview"

\* the intents in table order, and the score of the i-th of them for a text:
\* 2 for each keyword that occurs as a whole word and 1 for each that occurs
\* only inside a longer word, over the number of keywords of the intent
TableOrder == <<"marriage", "career", "money", "health", "love", "family", "general">>
AsWholeWord(text, i) ==
    {k \in DOMAIN Intents[i].keywords :
        /\ Includes(ToLowerCase(text), Intents[i].keywords[k])
        /\ WholeWordTest(text, Intents[i].keywords[k])}
AsSubstringOnly(text, i) ==
    {k \in DOMAIN Intents[i].keywords :
        /\ Includes(ToLowerCase(text), Intents[i].keywords[k])
        /\ ~WholeWordTest(text, Intents[i].keywords[k])}
ScoreNum(text, i) == 2 * Cardinality(AsWholeWord(text, i)) + Cardinality(AsSubstringOnly(text, i))
ScoreDen(i) == Len(Intents[i].keywords)
\* intent i has a positive score that none has higher and none before it equals
Wins(text, i) ==
    /\ ScoreNum(text, i) > 0
    /\ \A j \in DOMAIN TableOrder :
          /\ ScoreNum(text, j) * ScoreDen(i) <= ScoreNum(text, i) * ScoreDen(j)
          /\ j < i => ScoreNum(text, j) * ScoreDen(i) < ScoreNum(text, i) * ScoreDen(j)

\* what the classifier is to return for a text without the overview pair:
\* the winner in table order, or general with the score 0 when no keyword
\* occurs; computed once for each text the specification sends
ExpectedClassification(text) ==
    IF \A i \in DOMAIN TableOrder : ScoreNum(text, i) = 0
    THEN [overview |-> HasOverviewPair(text), intent |-> "general", num |-> 0, den |-> 1]
    ELSE LET i == CHOOSE w \in DOMAIN TableOrder : Wins(text, w)
         IN  [overview |-> HasOverviewPair(text), intent |-> TableOrder[i],
              num |-> ScoreNum(text, i), den |-> ScoreDen(i)]
ScoredTexts == {Trim(x) : x \in ClassifyTexts}
ExpectedMemo == [text \in ScoredTexts |-> ExpectedClassification(text)]
Expected(text) ==
    IF text \in ScoredTexts THEN ExpectedMemo[text] ELSE ExpectedClassification(text)

\* C28: a classified text without the overview pair has the intent whose score
\* (2 per whole-word keyword, 1 per keyword inside a longer word, over the
\* number of keywords) is highest, the earliest in table order among equals,
\* with that score as its confidence; with no keyword at all it has the
\* intent general and the confidence 0.
C28_KeywordScoring ==
    \A c \in Classified :
       ~Expected(c.text).overview
       => /\ ~c.isGeneralOverview
          /\ c.intent = Expected(c.text).intent
          /\ c.confidence.num * Expected(c.text).den
                = Expected(c.text).num * c.confidence.den

\* a tie of career and health went to career, and a whole word of money beat
\* a career keyword inside a longer word
C28_Witness ==
    /\ \E c \in Classified : c.text = TextTieSameLength /\ c.intent = "career"
    /\ \E c \in Classified :
          /\ c.text = TextSubstringWhole
          /\ c.intent = "money"
          /\ c.confidence = [num |-> 2, den |-> 10]

\* C23: an order request with a plan type outside basic, standard, premium,
\* report is answered with the invalid-plan rejection whatever the gateway
\* would have answered, and stores nothing; a request the gateway fails stores
\* nothing; a request the gateway accepts adds exactly the order with the
\* gateway's id, in status created, with the requesting user and the plan's
\* terms, and leaves the other orders as they were.  This holds whichever
\* orders are stored already, created or failed.
C23_CreateOrder ==
    [][\A r \in OrderRequests :
          (/\ r.userId # ""
           /\ r.planType # ""
           /\ CreateOrder(r.userId, r.planType, r.gatewayOk, r.orderId))
          => IF r.planType \notin {"basic", "standard", "premium", "report"}
             THEN /\ lastOp' = Failed("createOrder", 400, InvalidPlan)
                  /\ UNCHANGED <<orders, payments>>
             ELSE IF ~r.gatewayOk
             THEN /\ lastOp' = Responded("createOrder", 500)
                  /\ UNCHANGED <<orders, payments>>
             ELSE /\ lastOp' = Responded("createOrder", 200)
                  /\ r.orderId \notin DOMAIN orders
                  /\ DOMAIN orders' = DOMAIN orders \cup {r.orderId}
                  /\ \A other \in DOMAIN orders : orders'[other] = orders[other]
                  /\ orders'[r.orderId].id = r.orderId
                  /\ orders'[r.orderId].status = "created"
                  /\ orders'[r.orderId].userId = r.userId
                  /\ orders'[r.orderId].planType = r.planType
                  /\ orders'[r.orderId].plan = Plans[r.planType]
                  /\ orders'[r.orderId].amount = Plans[r.planType].price * 100]_vars

\* the basic plan has just been ordered, 5 questions for 199, while another
\* user's order of the report plan is stored and failed
C23_Witness ==
    /\ lastOp = Responded("createOrder", 200)
    /\ \E o, other \in DOMAIN orders :
          /\ o # other
          /\ orders[o].status = "created"
          /\ orders[o].userId = "u1"
          /\ orders[o].planType = "basic"
          /\ orders[o].plan.questions = 5
          /\ orders[o].amount = 19900
          /\ orders[other].status = "failed"
          /\ orders[other].userId = "ux"
          /\ orders[other].planType = "report"

\* C24: a failure report with an order id completes without raising for every
\* order id and every error detail, an absent one included; for an unknown
\* order it leaves orders and payments as they were, and for a known order,
\* failed already or not, it leaves the order failed.
C24_FailureNeverFails ==
    [][\A o \in PayOrderIdInputs, e \in ErrorDataInputs :
          (Len(o) > 0 /\ PaymentFailure(o, e))
          => /\ lastOp' = Responded("failure", 200)
             /\ UNCHANGED payments
             /\ IF o \in DOMAIN orders
                THEN orders'[o].status = "failed"
                ELSE UNCHANGED orders]_vars

\* C25: a valid message of a stored user that the gate lets pass starts its
\* handling although its session id is not in the store; when the generation
\* of such a message answers, the store holds a session under that id with
\* that exchange alone and queryCount 1.
C25_LazySession ==
    [][/\ \A u \in ChatUserIds, sid \in SessionIds, m \in ChatInputs :
             (/\ sid \notin DOMAIN sessions
              /\ u \in DOMAIN users
              /\ GateDecision(StateOf(u), Classify(Trim(m))) # "reject"
              /\ ChatMessage(u, sid, m))
             => /\ lastOp' = Responded("chat", 0)
                /\ \E req \in BagToSet(requests') :
                      req.sessionId = sid /\ req.before = <<>>
       /\ \A req \in BagToSet(requests), response \in Responses :
             (req.before = <<>> /\ GenerateOk(req, response))
             => /\ req.sessionId \in DOMAIN sessions'
                /\ LET session == sessionHeap'[sessions'[req.sessionId]]
                   IN  /\ Len(session.messages) = 1
                       /\ session.messages[1].user = req.message
                       /\ session.messages[1].bot = response
                       /\ session.queryCount = 1]_vars

\* the first exchange of a session has just been stored
C25_Witness ==
    /\ lastOp = Responded("generated", 200)
    /\ requests = EmptyBag
    /\ \E sid \in DOMAIN sessions :
          /\ Len(sessionHeap[sessions[sid]].messages) = 1
          /\ sessionHeap[sessions[sid]].queryCount = 1

\* C26: no two messages of one user, and no two messages for one session, are
\* in flight together between the start of their handling and its end.
C26_OneInFlight ==
    /\ \A req \in BagToSet(requests) : CopiesIn(req, requests) = 1
    /\ \A r1, r2 \in BagToSet(requests) :
          r1 # r2 => r1.userId # r2.userId /\ r1.sessionId # r2.sessionId

\* the fallback entry of a place: the table entries whose name is the
\* trimmed, lower-cased place
FallbackEntries(place) ==
    {i \in DOMAIN IndianCityCoordinates :
        IndianCityCoordinates[i].name = Trim(ToLowerCase(place))}

\* C27: when the geocoding service fails, a profile for a place with a
\* fallback entry is created with the entry's coordinates (Mumbai: 19.0760,
\* 72.8777), and a profile for any other place is refused with nothing stored.
C27_GeocodingFallback ==
    [][\A id \in ProfileIds, place \in PlaceInputs, geo \in GeoInputs :
          (~geo.ok /\ CreateUser(<<"A">>, GenderFemale, BirthDate, BirthTime, place, geo, id))
          => IF FallbackEntries(place) # {}
             THEN /\ lastOp' = Responded("createUser", 200)
                  /\ id \in DOMAIN users' /\ id \in DOMAIN userStates'
                  /\ \A i \in FallbackEntries(place) :
                        /\ users'[id].birthData.latitude = IndianCityCoordinates[i].latitude
                        /\ users'[id].birthData.longitude = IndianCityCoordinates[i].longitude
                  /\ place = PlaceMumbai
                        => /\ users'[id].birthData.latitude = 190760
                           /\ users'[id].birthData.longitude = 728777
             ELSE /\ lastOp' = Responded("createUser", 500)
                  /\ UNCHANGED <<users, userStates>>]_vars

\* C29: the context of a stored session has the user line and the generated
\* line of every exchange its message list holds, no line of an exchange the
\* list has dropped, and at most 20 lines.
C29_ContextCoversRetained ==
    \A sid \in DOMAIN sessions :
       LET obj == sessions[sid]
           session == sessionHeap[obj]
           started == Cardinality({req \in BagToSet(requests) : req.session = obj})
           n == session.queryCount - started
           len == Len(session.messages)
           lines == Split(session.context, "\n")
           Has(line) == \E i \in DOMAIN lines : lines[i] = line
       IN  /\ Cardinality({i \in DOMAIN lines : Len(lines[i]) > 0}) <= 20
           /\ \A j \in 1..n :
                 IF j > n - len
                 THEN /\ Has(UserPrefix \o SessionText(j))
                      /\ Has(BotPrefix \o SessionResponse(j))
                 ELSE /\ ~Has(UserPrefix \o SessionText(j))
                      /\ ~Has(BotPrefix \o SessionResponse(j))

\* C30: for a stored, non-premium user with freeQuestionsUsed = 10, a
\* general-overview message is handled when the user has not received the
\* overview, with the counter left at 10 and the flag set, and every other
\* message, a general-overview message after the first included, is rejected
\* with no handling started.
C30_OverviewAtLimit ==
    [][\A u \in ChatUserIds, sid \in SessionIds, m \in ChatInputs :
          (/\ u \in DOMAIN users
           /\ ~StateOf(u).isPremium
           /\ StateOf(u).freeQuestionsUsed = 10
           /\ ChatMessage(u, sid, m))
          => IF IsOverviewText(m) /\ ~Truthy(StateOf(u), "hasReceivedOverview")
             THEN /\ lastOp' = Responded("chat", 0)
                  /\ BagCardinality(requests') = BagCardinality(requests) + 1
                  /\ userStates'[u].freeQuestionsUsed = 10
                  /\ Truthy(userStates'[u], "hasReceivedOverview")
             ELSE /\ lastOp' = Responded("chat", 402)
                  /\ UNCHANGED <<requests, userStates, sessions, sessionHeap>>]_vars

\* the overview of a user who had used all ten free questions is being handled
C30_Witness ==
    /\ lastOp = Responded("chat", 0)
    /\ BagCardinality(requests) = 1
    /\ \E req \in BagToSet(requests) :
          /\ IsOverviewText(req.message)
          /\ ~userStates[req.userId].isPremium
          /\ userStates[req.userId].freeQuestionsUsed = 10
          /\ userStates[req.userId].totalQuestions = 11
          /\ Truthy(userStates[req.userId], "hasReceivedOverview")

\* C31: a message of a premium user is never answered with the
\* payment-required rejection, and no step of the handling of a message
\* changes a premium user's freeQuestionsUsed or remainingQuestions or ends
\* the premium status.
C31_PremiumUnmetered ==
    [][/\ \A u \in ChatUserIds, sid \in SessionIds :
             (/\ IsPremium(userStates, u)
              /\ u \in DOMAIN users
              /\ ChatMessage(u, sid, SessionText(NextExchange(sid))))
             => lastOp' = Responded("chat", 0)
       /\ lastOp'.op \in {"chat", "fetched", "generated"}
             => \A u \in DOMAIN userStates :
                   userStates[u].isPremium
                   => /\ userStates'[u].isPremium
                      /\ userStates'[u].freeQuestionsUsed = userStates[u].freeQuestionsUsed
                      /\ userStates'[u].remainingQuestions
                            = userStates[u].remainingQuestions]_vars

\* a user whose plan has the allowance 0 has had three messages answered
\* since the payment
C31_Witness ==
    /\ lastOp = Responded("generated", 200)
    /\ \E u \in DOMAIN userStates :
          /\ userStates[u].isPremium
          /\ userStates[u].planType = "report"
          /\ userStates[u].remainingQuestions = 0
          /\ userStates[u].totalQuestions = 3

\* C32: a handler in flight always comes to its end; a message step has one
\* of the outcomes rejected as invalid, payment required, error, or handling
\* started; and a handler leaves only by the generated response or by the
\* error response, one handler per step.
C32_EveryMessageEnds ==
    /\ [](requests # EmptyBag => <>(requests = EmptyBag))
    /\ [][/\ lastOp'.op = "chat"
             => \/ lastOp'.status \in {400, 402, 500} /\ UNCHANGED requests
                \/ lastOp'.status = 0 /\ BagCardinality(requests') = BagCardinality(requests) + 1
          /\ lastOp'.op = "generated"
             => /\ lastOp'.status \in {200, 500}
                /\ BagCardinality(requests') = BagCardinality(requests) - 1
          /\ lastOp'.op \notin {"chat", "generated"}
             => BagCardinality(requests') = BagCardinality(requests)]_vars

\* the provider failed for every endpoint, the generation failed too, and the
\* handler has ended with the error response
C32_Witness ==
    /\ lastOp = Responded("generated", 500)
    /\ requests = EmptyBag
    /\ \E k \in DOMAIN astroCache : FetchFailed(astroCache[k].data)

\* C33: when a handler's generation succeeds for a session id under which
\* another handler has stored the session in the meantime, the stored session
\* afterwards holds every exchange it held before followed by the handler's
\* own, and, when the store held no session at the arrival of the handler's
\* message, a queryCount larger than the one the other handler left.
C33_NoLostExchange ==
    [][\A req \in BagToSet(requests), response \in Responses :
          (/\ GenerateOk(req, response)
           /\ req.sessionId \in DOMAIN sessions
           /\ Len(sessionHeap[sessions[req.sessionId]].messages) < MaxRetained)
          => LET old == sessionHeap[sessions[req.sessionId]]
                 new == sessionHeap'[sessions'[req.sessionId]]
             IN  /\ Len(new.messages) = Len(old.messages) + 1
                 /\ SubSeq(new.messages, 1, Len(old.messages)) = old.messages
                 /\ new.messages[Len(new.messages)].user = req.message
                 /\ req.before = <<>> => new.queryCount > old.queryCount]_vars

\* C34: a message of the overview kind takes the free branch only for a user
\* whose hasReceivedOverview is not set, and that same step sets it; for a
\* user whose flag is set, also by a handler still in flight, it is gated as
\* an ordinary question (charged, or rejected at the limit, or passed for a
\* premium user); and no step of the chat handling clears the flag.
C34_OneFreeOverview ==
    [][/\ \A u \in ChatUserIds, sid \in SessionIds, m \in ChatInputs :
             (ChatMessage(u, sid, m) /\ IsOverviewText(m))
             => LET st == StateOf(u)
                IN  IF Truthy(st, "hasReceivedOverview")
                    THEN IF st.isPremium THEN UNCHANGED userStates \/ lastOp'.status = 0
                         ELSE IF st.freeQuestionsUsed >= FreeLimit
                         THEN lastOp' = Responded("chat", 402)
                         ELSE userStates'[u].freeQuestionsUsed = st.freeQuestionsUsed + 1
                    ELSE /\ u \in DOMAIN userStates'
                         /\ Truthy(userStates'[u], "hasReceivedOverview")
                         /\ userStates'[u].freeQuestionsUsed = st.freeQuestionsUsed
                         /\ lastOp'.status # 402
       /\ lastOp'.op \in {"chat", "fetched", "generated"}
             => \A u \in DOMAIN userStates :
                   Truthy(userStates[u], "hasReceivedOverview")
                   => Truthy(userStates'[u], "hasReceivedOverview")]_vars

\* two overview messages of one user are in flight together: one took the
\* free branch and the other was charged
C34_Witness ==
    /\ BagCardinality(requests) = 2
    /\ \A req \in BagToSet(requests) : IsOverviewText(req.message) /\ req.userId = "u1"
    /\ Truthy(userStates["u1"], "hasReceivedOverview")
    /\ userStates["u1"].freeQuestionsUsed = 1
    /\ userStates["u1"].totalQuestions = 2

\* C35: for a user who is not premium, the number of messages that passed
\* the gate and entered the generation (totalQuestions) is at most the
\* charged questions plus the one free overview, hence at most 11.
C35_AtMostEleven ==
    \A u \in DOMAIN userStates :
       ~userStates[u].isPremium
       => /\ userStates[u].totalQuestions
                <= userStates[u].freeQuestionsUsed
                   + (IF Truthy(userStates[u], "hasReceivedOverview") THEN 1 ELSE 0)
          /\ userStates[u].freeQuestionsUsed <= FreeLimit
          /\ userStates[u].totalQuestions <= FreeLimit + 1

\* eleven messages of a user who never paid entered the generation, and the
\* twelfth has been rejected
C35_Witness ==
    /\ lastOp = Responded("chat", 402)
    /\ \E u \in DOMAIN userStates :
          /\ ~userStates[u].isPremium
          /\ userStates[u].totalQuestions = FreeLimit + 1
          /\ userStates[u].freeQuestionsUsed = FreeLimit

\* C36: a verification that makes a user's Usage State premium is the
\* verification of an order created by that user, and a verification creates
\* no Usage State for an id that is not in the user store.
C36_GrantToOrderOwner ==
    [][\A v \in BagToSet(verifying) :
          VerifyPaymentReturn(v)
          => /\ \A u \in DOMAIN userStates' :
                   (userStates'[u].isPremium /\ ~IsPremium(userStates, u))
                   => /\ v.orderId \in DOMAIN orders
                      /\ orders[v.orderId].userId = u
             /\ (DOMAIN userStates' \ DOMAIN userStates) \subseteq DOMAIN users]_vars

\* C37: in every reachable state, every order for which a payment record
\* exists has the status paid.
C37_PaidIsTerminal ==
    \A p \in DOMAIN payments :
       /\ payments[p].orderId \in DOMAIN orders
       /\ orders[payments[p].orderId].status = "paid"

\* C38: the handling of a message whose user id is not in the user store
\* leaves the Usage State store as it was: no state is created for the id
\* and none is changed.
C38_UnknownUserNoState ==
    [][\A u \in ChatUserIds, sid \in SessionIds, m \in ChatInputs :
          (u \notin DOMAIN users /\ ChatMessage(u, sid, m))
          => userStates' = userStates]_vars

\* C39: when the generation fails for a message of the overview kind, the
\* user's hasReceivedOverview is still true afterwards, the stored sessions
\* hold the messages they held (no exchange is recorded), and the gate takes
\* the user's next overview message as an ordinary question: charged, or
\* rejected at the limit, or passed for a premium user.
C39_OverviewSpentOnAttempt ==
    [][\A req \in BagToSet(requests) :
          (GenerateFail(req) /\ IsOverviewText(req.message))
          => /\ req.userId \in DOMAIN userStates'
             /\ Truthy(userStates'[req.userId], "hasReceivedOverview")
             /\ DOMAIN sessions' = DOMAIN sessions
             /\ \A sid \in DOMAIN sessions :
                   sessionHeap'[sessions'[sid]].messages
                      = sessionHeap[sessions[sid]].messages
             /\ LET st == userStates'[req.userId]
                IN  GateDecision(st, Classify(Trim(TextOverview)))
                       = IF st.isPremium THEN "pass"
                         ELSE IF st.freeQuestionsUsed >= FreeLimit THEN "reject"
                         ELSE "charge"]_vars

\* the user's only message was the free overview and its generation failed:
\* nothing is stored for the session and the overview is spent
C39_Witness ==
    /\ lastOp = Responded("generated", 500)
    /\ requests = EmptyBag
    /\ sessions = <<>>
    /\ \E u \in DOMAIN users :
          /\ Truthy(userStates[u], "hasReceivedOverview")
          /\ userStates[u].totalQuestions = 1
          /\ userStates[u].freeQuestionsUsed = 0
          /\ ~userStates[u].isPremium

====
